---- MODULE Spec2Model ----
(***************************************************************************)
(* State-machine model of the turn/realtime orchestrator `Game`            *)
(* (game/src/lib.rs) and of the `World` operations it drives               *)
(* (game/src/world/mod.rs, game/src/world/action.rs).                      *)
(*                                                                         *)
(* Option<T> values are sequences of length at most one: None is <<>> and  *)
(* Some(x) is <<x>>.  A component table is a function whose domain is the  *)
(* set of entities that carry the component.                               *)
(***************************************************************************)
EXTENDS Integers, Sequences, FiniteSets, TLC

\* ------------------------------------------------------------------ bounds
Width == 3
Height == 2
\* the position of an RNG stream is counted up to MaxDraws draws
MaxDraws == 2
\* the caller stops ticking once this much unprocessed time is left over (ms)
MaxResidual == 32

\* ------------------------------------------------------- program constants
ANIMATION_FRAME_DURATION == 16
FINAL_LEVEL == 1
GenerateCountdownMs == 200
NpcCooldownMs == 100
DoorCloseCountdown == 4
ClosedDoorOpacity == 255

\* Rng: the stream position after one more draw
Draw(position) == IF position < MaxDraws THEN position + 1 ELSE position
RECURSIVE Draws(_, _)
Draws(position, n) == IF n = 0 THEN position ELSE Draws(Draw(position), n - 1)

\* a local `let`: body applied to the value of e, computed once
Bind(e, body(_)) == CHOOSE r \in {body(v) : v \in {e}} : TRUE

\* ----------------------------------------------------------------- options
None == <<>>
Some(x) == <<x>>
IsSome(o) == o # <<>>
Unwrap(o) == o[1]

\* ------------------------------------------------------------ entity table
\* ComponentTable<T>: get / contains / insert / remove
Contains(table, e) == e \in DOMAIN table
Insert(table, e, v) == [x \in (DOMAIN table) \cup {e} |-> IF x = e THEN v ELSE table[x]]
Remove(table, e) == [x \in (DOMAIN table) \ {e} |-> table[x]]
EmptyTable == [x \in {} |-> TRUE]

\* ------------------------------------------------------------- coordinates
Coords == (0 .. Width - 1) \X (0 .. Height - 1)
NoCoord == <<-1, -1>>
CoordAdd(c, d) == <<c[1] + d[1], c[2] + d[2]>>

CardinalDirections == {"North", "East", "South", "West"}
Directions == CardinalDirections \cup {"NorthEast", "SouthEast", "SouthWest", "NorthWest"}
DirectionCoord(d) ==
    CASE d = "North" -> <<0, -1>>
      [] d = "East" -> <<1, 0>>
      [] d = "South" -> <<0, 1>>
      [] d = "West" -> <<-1, 0>>
      [] d = "NorthEast" -> <<1, -1>>
      [] d = "SouthEast" -> <<1, 1>>
      [] d = "SouthWest" -> <<-1, 1>>
      [] d = "NorthWest" -> <<-1, -1>>

\* ---------------------------------------------------------------- entities
PlayerEntity == 1
NpcEntity == 2
WallEntity == 3
DoorEntity == 4
StairsEntity == 5
BulletEntity == 6
SecondNpcEntity == 7
Entities == 1 .. 7
NpcEntities == {NpcEntity, SecondNpcEntity}
NoEntity == 0

Layers == {"Floor", "Feature", "Character", "Item"}
NoLayer == "None"

\* ------------------------------------------------------------ SpatialTable
\* spatial_table[e] = [coord, layer]; an entity without a location is not in
\* the domain.
coord_of(st, e) == IF e \in DOMAIN st THEN st[e].coord ELSE NoCoord

\* layers_at(coord).<layer>: the occupant of one layer of a cell
LayerAt(st, c, layer) ==
    LET occ == {e \in DOMAIN st : st[e].coord = c /\ st[e].layer = layer}
    IN IF occ = {} THEN NoEntity ELSE CHOOSE e \in occ : TRUE

\* update_coord with the occupancy check left out
UpdateCoordUnchecked(st, e, c) ==
    IF c \notin Coords
    THEN [ok |-> FALSE, occupant |-> NoEntity, table |-> st]
    ELSE IF e \notin DOMAIN st
    THEN [ok |-> TRUE, occupant |-> NoEntity,
          table |-> Insert(st, e, [coord |-> c, layer |-> NoLayer])]
    ELSE [ok |-> TRUE, occupant |-> NoEntity,
          table |-> [st EXCEPT ![e].coord = c]]

\* SpatialTable::update_coord: Err(OccupiedBy(x)) when the entity's layer at
\* the destination is held by another entity, nothing is mutated then.
UpdateCoord(st, e, c) ==
    IF c \notin Coords
    THEN [ok |-> FALSE, occupant |-> NoEntity, table |-> st]
    ELSE IF e \notin DOMAIN st
    THEN [ok |-> TRUE, occupant |-> NoEntity,
          table |-> Insert(st, e, [coord |-> c, layer |-> NoLayer])]
    ELSE LET layer == st[e].layer
             occ == IF layer = NoLayer THEN NoEntity ELSE LayerAt(st, c, layer)
         IN IF occ # NoEntity /\ occ # e
            THEN [ok |-> FALSE, occupant |-> occ, table |-> st]
            ELSE [ok |-> TRUE, occupant |-> NoEntity,
                  table |-> [st EXCEPT ![e].coord = c]]

\* ------------------------------------------------------------- Components
ComponentNames ==
    {"solid", "opacity", "tile", "door_state", "door_close_countdown",
     "hit_points", "armour", "damage", "oxygen", "player", "npc", "character",
     "move_half_speed", "to_remove", "blocks_gameplay", "realtime",
     "destructible", "stairs", "goal", "upgrade", "projectile_damage",
     "on_collision", "collides_with"}

\* Components::remove_entity
remove_entity(components, e) ==
    [k \in DOMAIN components |-> Remove(components[k], e)]

\* Components::clone_entity_data: the components the entity carries
clone_entity_data(components, e) ==
    [k \in {n \in DOMAIN components : Contains(components[n], e)} |-> components[k][e]]

\* Components::insert_entity_data
insert_entity_data(components, e, data) ==
    [k \in DOMAIN components |->
        IF k \in DOMAIN data THEN Insert(components[k], e, data[k]) ELSE components[k]]

\* ------------------------------------------------------------------- World
\* World = [level, entity_allocator, components, realtime_components,
\*          spatial_table]
entity_exists(w, e) ==
    e \in w.entity_allocator /\ ~Contains(w.components.to_remove, e)

is_gameplay_blocked(w) == DOMAIN w.components.blocks_gameplay # {}

entity_coord(w, e) == coord_of(w.spatial_table, e)

\* World::character_info: None unless the entity has a coordinate, hit points
\* and oxygen
character_info(w, e) ==
    IF e \in DOMAIN w.spatial_table
       /\ Contains(w.components.hit_points, e)
       /\ Contains(w.components.oxygen, e)
    THEN Some([coord |-> w.spatial_table[e].coord,
               hit_points |-> w.components.hit_points[e],
               oxygen |-> w.components.oxygen[e]])
    ELSE None

\* query: the stairs entity on the floor layer of a cell
get_stairs_at_coord(w, c) ==
    LET floor == LayerAt(w.spatial_table, c, "Floor")
    IN IF floor # NoEntity /\ Contains(w.components.stairs, floor) THEN floor ELSE NoEntity

\* query: a solid entity on the feature layer of a cell
is_solid_feature_at_coord(w, c) ==
    LET feature == LayerAt(w.spatial_table, c, "Feature")
    IN feature # NoEntity /\ Contains(w.components.solid, feature)

\* query: the player stands on the goal of the final level
is_won(w) ==
    \E p \in DOMAIN w.components.player :
        /\ p \in DOMAIN w.spatial_table
        /\ LET floor == LayerAt(w.spatial_table, w.spatial_table[p].coord, "Floor")
           IN floor # NoEntity /\ Contains(w.components.goal, floor)

\* World::character_die
character_die(w, character) ==
    [w EXCEPT !.components.to_remove = Insert(@, character, TRUE)]

\* World::damage_character testing > where the code tests >=
damage_character_strict(w, character, hit_points_to_lose) ==
    LET hp == w.components.hit_points[character]
    IN IF hit_points_to_lose > hp.current
       THEN character_die([w EXCEPT !.components.hit_points[character].current = 0],
                          character)
       ELSE [w EXCEPT !.components.hit_points[character].current = @ - hit_points_to_lose]

\* World::damage_character (the caller has checked that hit_points is present)
damage_character(w, character, hit_points_to_lose) ==
    LET hp == w.components.hit_points[character]
    IN IF hit_points_to_lose >= hp.current
       THEN character_die([w EXCEPT !.components.hit_points[character].current = 0],
                          character)
       ELSE [w EXCEPT !.components.hit_points[character].current = @ - hit_points_to_lose]

\* World::character_push_in_direction
character_push_in_direction(w, e, direction) ==
    LET current_coord == coord_of(w.spatial_table, e)
        target_coord == CoordAdd(current_coord, DirectionCoord(direction))
    IN IF current_coord = NoCoord \/ is_solid_feature_at_coord(w, target_coord)
       THEN w
       ELSE [w EXCEPT !.spatial_table = UpdateCoord(@, e, target_coord).table]

\* World::open_door leaving the door solid
open_door_still_solid(w, door) ==
    [w EXCEPT !.components.opacity = Remove(@, door),
              !.components.tile = Insert(@, door,
                    [kind |-> "DoorOpen", axis |-> w.components.tile[door].axis]),
              !.components.door_close_countdown = Insert(@, door, DoorCloseCountdown)]

\* World::open_door
open_door(w, door) ==
    [w EXCEPT !.components.solid = Remove(@, door),
              !.components.opacity = Remove(@, door),
              !.components.tile = Insert(@, door,
                    [kind |-> "DoorOpen", axis |-> w.components.tile[door].axis]),
              !.components.door_close_countdown = Insert(@, door, DoorCloseCountdown)]

\* World::close_door leaving the door transparent
close_door_transparent(w, door) ==
    [w EXCEPT !.components.solid = Insert(@, door, TRUE),
              !.components.tile = Insert(@, door,
                    [kind |-> "DoorClosed", axis |-> w.components.tile[door].axis])]

\* World::close_door
close_door(w, door) ==
    [w EXCEPT !.components.solid = Insert(@, door, TRUE),
              !.components.opacity = Insert(@, door, ClosedDoorOpacity),
              !.components.tile = Insert(@, door,
                    [kind |-> "DoorClosed", axis |-> w.components.tile[door].axis])]

\* World::player_melee_attack; result "Panic" models the expect() on a victim
\* without armour or hit points
player_melee_attack(w, attacker, victim, direction) ==
    LET player == w.components.player[attacker]
        dmg == IF player.double_damage THEN 2 * player.melee_dmg ELSE player.melee_dmg
    IN IF ~Contains(w.components.armour, victim)
       THEN [world |-> w, result |-> "Panic"]
       ELSE IF player.melee_pen >= w.components.armour[victim]
                 /\ ~Contains(w.components.hit_points, victim)
       THEN [world |-> w, result |-> "Panic"]
       ELSE Bind(IF player.melee_pen >= w.components.armour[victim]
                 THEN damage_character(w, victim, dmg)
                 ELSE w, LAMBDA w1 :
            IF ~player.knock_back THEN [world |-> w1, result |-> "Ok"]
            ELSE Bind(character_push_in_direction(w1, victim, direction), LAMBDA w2 :
                 [world |-> character_push_in_direction(w2, victim, direction),
                  result |-> "Ok"]))

\* World::npc_melee_attack
npc_melee_attack(w, attacker, victim) ==
    IF ~Contains(w.components.damage, attacker)
       \/ ~Contains(w.components.hit_points, victim)
    THEN [world |-> w, result |-> "Panic"]
    ELSE [world |-> damage_character(w, victim, w.components.damage[attacker]),
          result |-> "Ok"]

\* World::melee_attack in which an NPC attacks whoever is in its way
melee_attack_npc_on_npc(w, attacker, victim, direction) ==
    IF Contains(w.components.player, attacker)
    THEN player_melee_attack(w, attacker, victim, direction)
    ELSE npc_melee_attack(w, attacker, victim)

\* World::melee_attack
melee_attack(w, attacker, victim, direction) ==
    IF Contains(w.components.player, attacker)
    THEN player_melee_attack(w, attacker, victim, direction)
    ELSE IF Contains(w.components.player, victim)
    THEN npc_melee_attack(w, attacker, victim)
    ELSE [world |-> w, result |-> "Ok"]

\* World::character_walk_in_direction, lines 72-111: the walk proper
WalkMove(w, character, direction) ==
    LET current_coord == coord_of(w.spatial_table, character)
        target_coord == CoordAdd(current_coord, DirectionCoord(direction))
        feature == LayerAt(w.spatial_table, target_coord, "Feature")
    IN IF current_coord = NoCoord
       THEN [world |-> w, result |-> "Panic"]
       ELSE IF target_coord \notin Coords
       THEN [world |-> w, result |-> "WalkIntoSolidCell"]
       ELSE IF feature # NoEntity /\ Contains(w.components.solid, feature)
       THEN IF Contains(w.components.door_state, feature)
               /\ w.components.door_state[feature] = "Closed"
            THEN [world |-> open_door(w, feature), result |-> "Ok"]
            ELSE [world |-> w, result |-> "WalkIntoSolidCell"]
       ELSE IF feature # NoEntity /\ Contains(w.components.upgrade, feature)
       THEN IF Contains(w.components.player, character)
            THEN [world |-> w, result |-> "Upgrade"]
            ELSE [world |-> w, result |-> "WalkIntoSolidCell"]
       ELSE LET u == UpdateCoord(w.spatial_table, character, target_coord)
            IN IF ~u.ok
               THEN melee_attack(w, character, u.occupant, direction)
               ELSE [world |-> [w EXCEPT !.spatial_table = u.table], result |-> "Ok"]

\* World::character_walk_in_direction whose skipped attempt leaves
\* skip_next_move set
character_walk_in_direction_stuck(w, character, direction) ==
    LET mhs == w.components.move_half_speed
    IN IF Contains(mhs, character) /\ mhs[character].skip_next_move
       THEN [world |-> w, result |-> "Ok"]
       ELSE IF Contains(mhs, character)
       THEN Bind([w EXCEPT !.components.move_half_speed[character].skip_next_move
                               = TRUE],
                 LAMBDA w1 : WalkMove(w1, character, direction))
       ELSE WalkMove(w, character, direction)

\* World::character_walk_in_direction
character_walk_in_direction(w, character, direction) ==
    LET mhs == w.components.move_half_speed
    IN IF Contains(mhs, character) /\ mhs[character].skip_next_move
       THEN [world |-> [w EXCEPT !.components.move_half_speed[character].skip_next_move
                                     = FALSE],
             result |-> "Ok"]
       ELSE IF Contains(mhs, character)
       THEN Bind([w EXCEPT !.components.move_half_speed[character].skip_next_move
                               = TRUE],
                 LAMBDA w1 : WalkMove(w1, character, direction))
       ELSE WalkMove(w, character, direction)

\* World::wait (after_player_move has an empty body)
wait(w, entity) == w

\* World::process_door_close_countdown
process_door_close_countdown(w) ==
    LET dcc == w.components.door_close_countdown
        located == {e \in DOMAIN dcc : e \in DOMAIN w.spatial_table}
        occupied(e) == LayerAt(w.spatial_table, w.spatial_table[e].coord, "Character")
                           # NoEntity
        to_close == {e \in located : ~occupied(e) /\ dcc[e] = 0}
        counted == [e \in DOMAIN dcc |->
                       IF e \notin located THEN dcc[e]
                       ELSE IF occupied(e) THEN DoorCloseCountdown
                       ELSE IF dcc[e] = 0 THEN 0
                       ELSE dcc[e] - 1]
        RECURSIVE CloseAll(_, _)
        CloseAll(w1, doors) ==
            IF doors = {} THEN w1
            ELSE LET d == CHOOSE x \in doors : \A y \in doors : x <= y
                 IN CloseAll(close_door(
                                 [w1 EXCEPT !.components.door_close_countdown = Remove(@, d)],
                                 d),
                             doors \ {d})
    IN CloseAll([w EXCEPT !.components.door_close_countdown = counted], to_close)

\* World::cleanup taking a copy of the dead player's data (clone_entity_data)
\* where the code takes the data out of the tables (remove_entity_data)
cleanup_cloning_player(w) ==
    Bind((DOMAIN w.components.to_remove)
             \cup {e \in DOMAIN w.components.hit_points :
                      w.components.hit_points[e].current = 0}, LAMBDA dead :
    Bind([w.components EXCEPT !.to_remove = [e \in dead |-> TRUE]], LAMBDA marked :
    LET players == {e \in dead : Contains(marked.player, e)}
        swept == [k \in DOMAIN marked |->
                     [x \in (DOMAIN marked[k]) \ (dead \ players) |-> marked[k][x]]]
    IN [world |-> [w EXCEPT !.components = swept,
                            !.spatial_table = [x \in (DOMAIN @) \ dead |-> @[x]],
                            !.entity_allocator = @ \ dead],
        player_died |-> IF players = {} THEN None
                        ELSE Some(clone_entity_data(
                                 marked, CHOOSE x \in players : \A y \in players : y <= x))]))

\* World::cleanup: sweeps every entity with zero hit points or marked
\* to_remove; returns the world and Option<PlayerDied(EntityData)>
cleanup(w) ==
    Bind((DOMAIN w.components.to_remove)
             \cup {e \in DOMAIN w.components.hit_points :
                      w.components.hit_points[e].current = 0}, LAMBDA dead :
    Bind([w.components EXCEPT !.to_remove = [e \in dead |-> TRUE]], LAMBDA marked :
    LET players == {e \in dead : Contains(marked.player, e)}
        swept == [k \in DOMAIN marked |->
                     [x \in (DOMAIN marked[k]) \ dead |-> marked[k][x]]]
    IN [world |-> [w EXCEPT !.components = swept,
                            !.spatial_table = [x \in (DOMAIN @) \ dead |-> @[x]],
                            !.entity_allocator = @ \ dead],
        player_died |-> IF players = {} THEN None
                        ELSE Some(clone_entity_data(
                                 marked, CHOOSE x \in players : \A y \in players : y <= x))]))

\* RealtimeComponents::remove_entity
realtime_remove_entity(rc, e) == [k \in DOMAIN rc |-> Remove(rc[k], e)]

\* World::projectile_stop whose RemoveRealtime branch leaves the projectile
\* in blocks_gameplay
projectile_stop_still_blocking(pw, projectile_entity) ==
    LET w == pw.world
        current_coord == coord_of(w.spatial_table, projectile_entity)
        has == current_coord # NoCoord
                  /\ Contains(w.components.on_collision, projectile_entity)
        on_collision == w.components.on_collision[projectile_entity]
        torn == [w EXCEPT !.spatial_table = Remove(@, projectile_entity),
                          !.components = remove_entity(@, projectile_entity),
                          !.entity_allocator = @ \ {projectile_entity},
                          !.realtime_components =
                              realtime_remove_entity(@, projectile_entity)]
        w1 == IF ~has THEN w
              ELSE IF on_collision \in {"Explode", "Remove"} THEN torn
              ELSE [w EXCEPT !.realtime_components =
                                 realtime_remove_entity(@, projectile_entity),
                             !.components.realtime = Remove(@, projectile_entity)]
        events1 == IF has /\ on_collision = "Explode"
                   THEN Append(pw.events, [type |-> "Explosion", arg |-> current_coord])
                   ELSE pw.events
    IN [world |-> [w1 EXCEPT !.realtime_components.movement =
                                 Remove(@, projectile_entity)],
        events |-> events1,
        rolls |-> pw.rolls]

\* World::projectile_stop; pw = [world, events]
projectile_stop(pw, projectile_entity) ==
    LET w == pw.world
        current_coord == coord_of(w.spatial_table, projectile_entity)
        has == current_coord # NoCoord
                  /\ Contains(w.components.on_collision, projectile_entity)
        on_collision == w.components.on_collision[projectile_entity]
        torn == [w EXCEPT !.spatial_table = Remove(@, projectile_entity),
                          !.components = remove_entity(@, projectile_entity),
                          !.entity_allocator = @ \ {projectile_entity},
                          !.realtime_components =
                              realtime_remove_entity(@, projectile_entity)]
        w1 == IF ~has THEN w
              ELSE IF on_collision \in {"Explode", "Remove"} THEN torn
              ELSE [w EXCEPT !.realtime_components =
                                 realtime_remove_entity(@, projectile_entity),
                             !.components.realtime = Remove(@, projectile_entity),
                             !.components.blocks_gameplay = Remove(@, projectile_entity)]
        events1 == IF has /\ on_collision = "Explode"
                   THEN Append(pw.events, [type |-> "Explosion", arg |-> current_coord])
                   ELSE pw.events
    IN [world |-> [w1 EXCEPT !.realtime_components.movement =
                                 Remove(@, projectile_entity)],
        events |-> events1,
        rolls |-> pw.rolls]

\* World::apply_projectile_damage
apply_projectile_damage(w, projectile_entity, projectile_damage, direction, entity_to_damage) ==
    IF ~Contains(w.components.armour, entity_to_damage)
    THEN w
    ELSE IF projectile_damage.pen >= w.components.armour[entity_to_damage]
    THEN LET remaining_pen == projectile_damage.pen - w.components.armour[entity_to_damage]
         IN Bind(damage_character(w, entity_to_damage, projectile_damage.hit_points),
                 LAMBDA w1 :
            Bind(IF projectile_damage.push_back
                 THEN character_push_in_direction(w1, entity_to_damage, direction)
                 ELSE w1, LAMBDA w2 :
            IF remaining_pen > 0
            THEN [w2 EXCEPT !.components.projectile_damage =
                     Insert(@, projectile_entity,
                            [projectile_damage EXCEPT !.pen = remaining_pen])]
            ELSE [w2 EXCEPT !.components = remove_entity(@, projectile_entity)]))
    ELSE [w EXCEPT !.components = remove_entity(@, projectile_entity)]

\* World::projectile_move; pw = [world, events, rolls] where rolls counts the
\* draws from the animation RNG, and hull_roll is the outcome of
\* rng.gen_range(0..100) < hull_pen_percent
projectile_move(pw, projectile_entity, movement_direction, hull_roll) ==
    LET w == pw.world
        current_coord == coord_of(w.spatial_table, projectile_entity)
        next_coord == CoordAdd(current_coord, DirectionCoord(movement_direction))
        collides_with ==
            IF Contains(w.components.collides_with, projectile_entity)
            THEN w.components.collides_with[projectile_entity]
            ELSE [solid |-> FALSE, character |-> FALSE]
        cell_character == LayerAt(w.spatial_table, next_coord, "Character")
        cell_feature == LayerAt(w.spatial_table, next_coord, "Feature")
        entity_in_cell == IF cell_feature # NoEntity THEN cell_feature ELSE cell_character
    IN IF current_coord = NoCoord
       THEN [pw EXCEPT !.world =
                [w EXCEPT !.components = remove_entity(@, projectile_entity),
                          !.realtime_components =
                              realtime_remove_entity(@, projectile_entity),
                          !.spatial_table = Remove(@, projectile_entity)]]
       ELSE IF next_coord \notin Coords
       THEN projectile_stop(pw, projectile_entity)
       ELSE Bind(IF cell_character # NoEntity
                    /\ Contains(w.components.projectile_damage, projectile_entity)
                 THEN apply_projectile_damage(
                          w, projectile_entity,
                          w.components.projectile_damage[projectile_entity],
                          movement_direction, cell_character)
                 ELSE w, LAMBDA w1 :
            LET collides ==
                    /\ entity_in_cell # NoEntity
                    /\ \/ collides_with.solid
                            /\ Contains(w1.components.solid, entity_in_cell)
                       \/ collides_with.character
                            /\ Contains(w1.components.character, entity_in_cell)
                rolled == /\ Contains(w1.components.projectile_damage, projectile_entity)
                          /\ Contains(w1.components.destructible, entity_in_cell)
            IN IF collides
               THEN Bind([pw EXCEPT
                             !.world =
                                 IF rolled /\ hull_roll
                                 THEN [w1 EXCEPT
                                          !.components = remove_entity(@, entity_in_cell),
                                          !.spatial_table = Remove(@, entity_in_cell)]
                                 ELSE w1,
                             !.rolls = IF rolled THEN @ + 1 ELSE @],
                         LAMBDA hit : projectile_stop(hit, projectile_entity))
               ELSE [pw EXCEPT !.world =
                        [w1 EXCEPT !.spatial_table =
                             UpdateCoord(@, projectile_entity, next_coord).table]])

\* AnimationContext::tick: every scheduled movement advances one cell
RECURSIVE AnimateMovements(_, _, _)
AnimateMovements(pw, todo, hull_roll) ==
    IF todo = {} THEN pw
    ELSE LET e == CHOOSE x \in todo : \A y \in todo : x <= y
             movement == pw.world.realtime_components.movement
         IN Bind(IF Contains(movement, e)
                 THEN projectile_move(pw, e, movement[e], hull_roll)
                 ELSE pw,
                 LAMBDA moved : AnimateMovements(moved, todo \ {e}, hull_roll))

animation_tick(w, events, hull_roll) ==
    AnimateMovements([world |-> w, events |-> events, rolls |-> 0],
                     DOMAIN w.realtime_components.movement, hull_roll)

\* ----------------------------------------------------------------- upgrades
UpgradeTypes == {"Toughness", "Accuracy", "Endurance"}
UpgradeLevels == {"Level1", "Level2"}
Upgrades == [typ : UpgradeTypes, level : UpgradeLevels]

\* UpgradeLevel::cost
cost(level) == IF level = "Level1" THEN 2 ELSE 3

\* the effect of an upgrade on the player's components
UpgradeEffect(w, entity, upgrade) ==
    CASE upgrade.typ = "Toughness" /\ upgrade.level = "Level1" ->
             [world |-> [w EXCEPT !.components.player[entity].ranged_weapons =
                                      Append(@, None)],
              result |-> "Ok"]
      [] upgrade.typ = "Toughness" /\ upgrade.level = "Level2" ->
             IF ~Contains(w.components.hit_points, entity)
             THEN [world |-> w, result |-> "Panic"]
             ELSE [world |-> [w EXCEPT !.components.hit_points[entity] =
                                 [max |-> @.max * 2, current |-> @.current * 2]],
                   result |-> "Ok"]
      [] upgrade.typ = "Accuracy" /\ upgrade.level = "Level1" ->
             [world |-> [w EXCEPT !.components.player[entity].reduce_hull_pen = TRUE],
              result |-> "Ok"]
      [] upgrade.typ = "Accuracy" /\ upgrade.level = "Level2" ->
             [world |-> [w EXCEPT !.components.player[entity].double_damage = TRUE],
              result |-> "Ok"]
      [] upgrade.typ = "Endurance" /\ upgrade.level = "Level1" ->
             [world |-> [w EXCEPT !.components.player[entity].half_vacuum_pull = TRUE],
              result |-> "Ok"]
      [] upgrade.typ = "Endurance" /\ upgrade.level = "Level2" ->
             IF ~Contains(w.components.oxygen, entity)
             THEN [world |-> w, result |-> "Panic"]
             ELSE [world |-> [w EXCEPT !.components.oxygen[entity] =
                                 [max |-> @.max * 2, current |-> @.current * 2]],
                   result |-> "Ok"]

\* World::apply_upgrade taking the price before it looks at the credit
apply_upgrade_charging_first(w, entity, upgrade) ==
    IF ~Contains(w.components.player, entity) THEN [world |-> w, result |-> "Panic"]
    ELSE Bind([w EXCEPT !.components.player[entity].credit =
                            IF @ >= cost(upgrade.level) THEN @ - cost(upgrade.level)
                            ELSE 0], LAMBDA w0 :
         IF w.components.player[entity].credit < cost(upgrade.level)
         THEN [world |-> w0, result |-> "CannotAffordUpgrade"]
         ELSE Bind([w0 EXCEPT !.components.player[entity].upgrade_table[upgrade.typ] =
                                  Some(upgrade.level)],
                   LAMBDA w1 : UpgradeEffect(w1, entity, upgrade)))

\* World::apply_upgrade; result is "Ok" | "CannotAffordUpgrade" | "Panic"
apply_upgrade(w, entity, upgrade) ==
    IF ~Contains(w.components.player, entity) THEN [world |-> w, result |-> "Panic"]
    ELSE IF w.components.player[entity].credit < cost(upgrade.level)
    THEN [world |-> w, result |-> "CannotAffordUpgrade"]
    ELSE Bind([w EXCEPT !.components.player[entity].credit = @ - cost(upgrade.level),
                        !.components.player[entity].upgrade_table[upgrade.typ] =
                            Some(upgrade.level)],
              LAMBDA w1 : UpgradeEffect(w1, entity, upgrade))

\* ----------------------------------------------------------------- terrain
\* make_player: the player's persistent data
make_player(knock_back) ==
    [player |-> [melee_pen |-> 1, melee_dmg |-> 1, knock_back |-> knock_back,
                 double_damage |-> FALSE],
     character |-> TRUE,
     hit_points |-> [current |-> 2, max |-> 2],
     armour |-> 0,
     oxygen |-> [current |-> 1, max |-> 1],
     tile |-> [kind |-> "Player", axis |-> "-"]]

NoComponents == [k \in ComponentNames |-> EmptyTable]

NoBullet == <<>>

\* what the generator's draws decide: which furniture the level has, whether
\* its NPC moves at half speed, and the projectile in flight, if any
Layout(furniture, half_speed, bullet) ==
    [furniture |-> furniture, half_speed |-> half_speed, bullet |-> bullet]

\* the components of the level's furniture: an NPC, a destructible wall, a
\* closed door and the stairs (the goal on the final level)
TerrainComponents(level, layout) ==
    LET has(es) == es \cap layout.furniture
    IN [NoComponents EXCEPT
        !.npc = [e \in has(NpcEntities) |-> TRUE],
        !.character = [e \in has(NpcEntities) |-> TRUE],
        !.hit_points = [e \in has(NpcEntities) |-> [current |-> 1, max |-> 1]],
        !.armour = [e \in has(NpcEntities) |-> 1],
        !.damage = [e \in has(NpcEntities) |-> 1],
        !.move_half_speed = [e \in (IF layout.half_speed THEN has(NpcEntities) ELSE {}) |->
                                [skip_next_move |-> FALSE]],
        !.solid = [e \in has({WallEntity, DoorEntity}) |-> TRUE],
        !.opacity = [e \in has({WallEntity, DoorEntity}) |-> ClosedDoorOpacity],
        !.destructible = [e \in has({WallEntity}) |-> TRUE],
        !.door_state = [e \in has({DoorEntity}) |-> "Closed"],
        !.tile = [e \in has(NpcEntities \cup {WallEntity, DoorEntity, StairsEntity}) |->
                    CASE e \in NpcEntities -> [kind |-> "Npc", axis |-> "-"]
                      [] e = WallEntity -> [kind |-> "Wall", axis |-> "-"]
                      [] e = DoorEntity -> [kind |-> "DoorClosed", axis |-> "X"]
                      [] e = StairsEntity -> [kind |-> "Stairs", axis |-> "-"]],
        !.stairs = [e \in (IF level = FINAL_LEVEL THEN {} ELSE has({StairsEntity})) |-> TRUE],
        !.goal = [e \in (IF level = FINAL_LEVEL THEN has({StairsEntity}) ELSE {}) |-> TRUE]]

TerrainSpatial(layout) ==
    [e \in {PlayerEntity} \cup layout.furniture |->
        CASE e = PlayerEntity -> [coord |-> <<0, 0>>, layer |-> "Character"]
          [] e = NpcEntity -> [coord |-> <<1, 1>>, layer |-> "Character"]
          [] e = SecondNpcEntity -> [coord |-> <<2, 1>>, layer |-> "Character"]
          [] e = WallEntity -> [coord |-> <<2, 1>>, layer |-> "Feature"]
          [] e = DoorEntity -> [coord |-> <<1, 0>>, layer |-> "Feature"]
          [] e = StairsEntity -> [coord |-> <<2, 0>>, layer |-> "Floor"]]

\* a projectile in flight when the level starts
with_bullet(w, bullet) ==
    [w EXCEPT
        !.entity_allocator = @ \cup {BulletEntity},
        !.spatial_table = Insert(@, BulletEntity, [coord |-> bullet.coord, layer |-> NoLayer]),
        !.components.blocks_gameplay = Insert(@, BulletEntity, TRUE),
        !.components.realtime = Insert(@, BulletEntity, TRUE),
        !.components.on_collision = Insert(@, BulletEntity, bullet.on_collision),
        !.components.collides_with =
            Insert(@, BulletEntity, [solid |-> TRUE, character |-> bullet.collides_character]),
        !.components.projectile_damage =
            Insert(@, BulletEntity,
                   [hit_points |-> 1, pen |-> bullet.pen, push_back |-> bullet.push_back]),
        !.realtime_components.movement = Insert(@, BulletEntity, bullet.direction)]

\* the player's shot: a projectile leaves the player's cell in the direction
\* of the shot (one projectile at a time)
FireInputs == {"FireEast", "FireSouth"}
player_fire(w, entity, input) ==
    LET coord == coord_of(w.spatial_table, entity)
        direction == IF input = "FireEast" THEN "East" ELSE "South"
    IN IF coord = NoCoord \/ BulletEntity \in w.entity_allocator THEN w
       ELSE with_bullet(w, [coord |-> coord, direction |-> direction,
                            on_collision |-> "Remove", pen |-> 2,
                            collides_character |-> TRUE, push_back |-> TRUE])

\* terrain::space_station(level, player_data, spec, rng); layout stands for
\* what the generator draws from rng
space_station(level, player_data, layout) ==
    LET w == [level |-> level,
              entity_allocator |-> {PlayerEntity} \cup layout.furniture,
              components |-> insert_entity_data(
                                 TerrainComponents(level, layout),
                                 PlayerEntity, player_data),
              realtime_components |-> [movement |-> EmptyTable],
              spatial_table |-> TerrainSpatial(layout)]
    IN [world |-> IF layout.bullet = NoBullet THEN w ELSE with_bullet(w, layout.bullet),
        agents |-> layout.furniture \cap NpcEntities,
        player |-> PlayerEntity]

\* -------------------------------------------------------------- visibility
Abs(n) == IF n < 0 THEN -n ELSE n
Max(a, b) == IF a >= b THEN a ELSE b
Distance(a, b) == Max(Abs(a[1] - b[1]), Abs(a[2] - b[2]))

\* query: some entity at the coordinate carries opacity
is_opaque(w, c) ==
    \E e \in DOMAIN w.components.opacity :
        e \in DOMAIN w.spatial_table /\ w.spatial_table[e].coord = c

\* shadowcast: a cell is lit when it is the observer's, or a lit transparent
\* cell one step nearer the observer is adjacent to it
RECURSIVE Lit(_, _, _)
Lit(w, observer, c) ==
    \/ Distance(observer, c) <= 1
    \/ \E n \in Coords :
          /\ Distance(n, c) = 1
          /\ Distance(observer, n) = Distance(observer, c) - 1
          /\ ~is_opaque(w, n)
          /\ Lit(w, observer, n)

\* VisibilityGrid::update
visibility_update(w, player_coord, omniscient) ==
    [observer |-> player_coord,
     visible |-> IF omniscient THEN Coords
                 ELSE {c \in Coords : Lit(w, player_coord, c)}]

\* VisibilityGrid::new
visibility_new == [observer |-> NoCoord, visible |-> {}]

\* -------------------------------------------------------------------- Game
\* A Game value g is the record of the struct's fields, plus g.panic (an
\* expect()/panic!() was hit) and g.obs, the observations of the current call.
NoObs == [npc_turns |-> <<>>, died |-> FALSE, frames |-> 0, regenerated |-> FALSE]

\* Game::update_visibility
update_visibility(g, config) ==
    LET player_coord == entity_coord(g.world, g.player)
    IN IF player_coord # NoCoord
       THEN [g EXCEPT !.visibility_grid =
                visibility_update(g.world, player_coord, config.omniscient)]
       ELSE g

\* Game::update_last_player_info
update_last_player_info(g) ==
    LET info == character_info(g.world, g.player)
    IN IF IsSome(info) THEN [g EXCEPT !.last_player_info = Unwrap(info)] ELSE g

\* Game::cleanup storing whatever World::cleanup returned
Game_cleanup_overwrite(g) ==
    Bind(cleanup(g.world), LAMBDA r :
        [g EXCEPT !.world = r.world,
                  !.dead_player = r.player_died,
                  !.obs.died = @ \/ IsSome(r.player_died)])

\* Game::cleanup
Game_cleanup(g) ==
    Bind(cleanup(g.world), LAMBDA r :
        [g EXCEPT !.world = r.world,
                  !.dead_player = IF IsSome(r.player_died) THEN r.player_died ELSE @,
                  !.obs.died = @ \/ IsSome(r.player_died)])

is_game_over(g) == IsSome(g.dead_player)
is_game_won(g) == is_won(g.world)

\* the tail that forgets to look at the death record
ControlFlow_ignoring_death(g) ==
    IF is_game_won(g) THEN "Win" ELSE "None"

\* the GameOver / Win / None tail shared by handle_input and handle_tick_inner
ControlFlow(g) ==
    IF is_game_over(g) THEN "GameOver"
    ELSE IF is_game_won(g) THEN "Win"
    ELSE "None"

\* Game::after_turn
after_turn(g) ==
    Bind(Game_cleanup(g), LAMBDA g1 :
    LET player_coord == entity_coord(g1.world, g1.player)
        stairs == player_coord # NoCoord
                     /\ get_stairs_at_coord(g1.world, player_coord) # NoEntity
    IN Bind([g1 EXCEPT !.generate_frame_countdown =
                           IF stairs THEN Some(GenerateCountdownMs) ELSE @,
                       !.agents = @ \cup DOMAIN g1.world.components.npc],
            LAMBDA g3 : Game_cleanup(g3)))

\* the loop of Game::npc_turn over the agents in table order; acts[e] is the
\* action agent e decides on
RECURSIVE NpcActs(_, _, _)
NpcActs(g, todo, acts) ==
    IF todo = {} \/ g.panic THEN g
    ELSE LET entity == CHOOSE x \in todo : \A y \in todo : x <= y
             rest == todo \ {entity}
         IN IF ~entity_exists(g.world, entity)
            THEN Bind([g EXCEPT !.agents_to_remove = @ \cup {entity}],
                      LAMBDA g1 : NpcActs(g1, rest, acts))
            ELSE Bind(IF acts[entity] = "Wait"
                      THEN [world |-> g.world, result |-> "Ok"]
                      ELSE character_walk_in_direction(g.world, entity, acts[entity]),
                      LAMBDA r :
                 Bind([g EXCEPT !.rng = Draw(@),
                                !.world = r.world,
                                !.panic = (r.result = "Panic")],
                      LAMBDA g1 : NpcActs(g1, rest, acts)))

\* Game::npc_turn keeping the records of the agents whose entity is gone
npc_turn_keeping_agents(g, acts) ==
    Bind([g EXCEPT !.obs.npc_turns = Append(@,
              [blocked |-> is_gameplay_blocked(g.world),
               turn |-> g.turn_during_animation,
               after_player_turn_countdown |-> g.after_player_turn_countdown,
               before_npc_turn_cooldown |-> g.before_npc_turn_cooldown])],
         LAMBDA g0 :
    Bind(NpcActs(g0, g0.agents, acts), LAMBDA g1 :
    IF g1.panic THEN g1
    ELSE Bind(update_last_player_info(g1), LAMBDA g2 :
         Bind([g2 EXCEPT !.agents_to_remove = {}],
              LAMBDA g3 : after_turn(g3)))))

\* Game::npc_turn that does not refresh the cached player info
npc_turn_stale_info(g, acts) ==
    Bind([g EXCEPT !.obs.npc_turns = Append(@,
              [blocked |-> is_gameplay_blocked(g.world),
               turn |-> g.turn_during_animation,
               after_player_turn_countdown |-> g.after_player_turn_countdown,
               before_npc_turn_cooldown |-> g.before_npc_turn_cooldown])],
         LAMBDA g0 :
    Bind(NpcActs(g0, g0.agents, acts), LAMBDA g1 :
    IF g1.panic THEN g1
    ELSE Bind([g1 EXCEPT !.agents = @ \ g1.agents_to_remove,
                         !.agents_to_remove = {}],
              LAMBDA g3 : after_turn(g3))))

\* Game::npc_turn
npc_turn(g, acts) ==
    Bind([g EXCEPT !.obs.npc_turns = Append(@,
              [blocked |-> is_gameplay_blocked(g.world),
               turn |-> g.turn_during_animation,
               after_player_turn_countdown |-> g.after_player_turn_countdown,
               before_npc_turn_cooldown |-> g.before_npc_turn_cooldown])],
         LAMBDA g0 :
    Bind(NpcActs(g0, g0.agents, acts), LAMBDA g1 :
    IF g1.panic THEN g1
    ELSE Bind(update_last_player_info(g1), LAMBDA g2 :
         Bind([g2 EXCEPT !.agents = @ \ g2.agents_to_remove,
                         !.agents_to_remove = {}],
              LAMBDA g3 : after_turn(g3)))))

\* the layouts the generator can draw for the first level, and the one it
\* draws for the levels after it
Bullet(coord, direction, on_collision, pen, collides_character) ==
    [coord |-> coord, direction |-> direction, on_collision |-> on_collision,
     pen |-> pen, collides_character |-> collides_character,
     push_back |-> collides_character]
Bullets ==
    {Bullet(<<0, 1>>, "North", "Remove", 2, TRUE),
     Bullet(<<0, 1>>, "East", "RemoveRealtime", 2, TRUE),
     Bullet(<<2, 0>>, "South", "Remove", 2, TRUE)}
\* projectiles that pass through characters, with a penetration below, equal
\* to and above the armour of the NPC in their way
PiercingBullets ==
    {Bullet(<<0, 1>>, "East", "Remove", pen, FALSE) : pen \in 0 .. 2}
\* projectiles that stop: one that explodes on the wall, one that crosses
\* the level and leaves the map, and one that hits an NPC whose armour
\* equals its penetration
StoppingBullets ==
    {Bullet(<<2, 0>>, "South", "Explode", 2, TRUE),
     Bullet(<<0, 0>>, "East", "Remove", 2, TRUE),
     Bullet(<<0, 1>>, "East", "Remove", 1, TRUE)}
FirstLayouts ==
    {Layout({NpcEntity, WallEntity, DoorEntity}, TRUE, NoBullet),
     Layout({NpcEntity, WallEntity, StairsEntity}, FALSE, NoBullet)}
    \cup {Layout({NpcEntity, WallEntity}, FALSE, bullet) : bullet \in Bullets}
NextLayout ==
    Layout({NpcEntity, WallEntity, StairsEntity}, FALSE,
           Bullet(<<0, 0>>, "East", "Remove", 2, TRUE))

\* Game::generate_level keeping the agents of the level it leaves
generate_level_keeping_agents(g, config) ==
    Bind(space_station(g.world.level + 1,
                       clone_entity_data(g.world.components, g.player),
                       NextLayout), LAMBDA terrain :
    Bind([g EXCEPT !.rng = Draw(@),
                   !.visibility_grid = visibility_new,
                   !.world = terrain.world,
                   !.player = terrain.player,
                   !.obs.regenerated = TRUE], LAMBDA g1 :
    Bind(update_last_player_info(g1), LAMBDA g2 :
    Bind(update_visibility(g2, config), LAMBDA g3 :
    LET music == IF g3.world.level = FINAL_LEVEL THEN "Boss"
                 ELSE g3.gameplay_music[(g3.world.level % Len(g3.gameplay_music)) + 1]
    IN [g3 EXCEPT !.events = Append(@, [type |-> "LoopMusic", arg |-> music])]))))

\* Game::generate_level
generate_level(g, config) ==
    Bind(space_station(g.world.level + 1,
                       clone_entity_data(g.world.components, g.player),
                       NextLayout), LAMBDA terrain :
    Bind([g EXCEPT !.rng = Draw(@),
                   !.visibility_grid = visibility_new,
                   !.world = terrain.world,
                   !.agents = terrain.agents,
                   !.player = terrain.player,
                   !.obs.regenerated = TRUE], LAMBDA g1 :
    Bind(update_last_player_info(g1), LAMBDA g2 :
    Bind(update_visibility(g2, config), LAMBDA g3 :
    LET music == IF g3.world.level = FINAL_LEVEL THEN "Boss"
                 ELSE g3.gameplay_music[(g3.world.level % Len(g3.gameplay_music)) + 1]
    IN [g3 EXCEPT !.events = Append(@, [type |-> "LoopMusic", arg |-> music])]))))

\* Game::player_turn marking the turn whatever the action's result
player_turn_always_marks(g, input) ==
    Bind(IF input = "Wait"
         THEN [world |-> wait(g.world, g.player), result |-> "Ok"]
         ELSE character_walk_in_direction(g.world, g.player, input), LAMBDA r :
    IF r.result = "Panic" THEN [g |-> [g EXCEPT !.panic = TRUE], result |-> "Panic"]
    ELSE [g |-> [g EXCEPT !.world = r.world,
                          !.turn_during_animation = Some("Player")],
          result |-> IF r.result = "Upgrade" THEN "Ok" ELSE r.result])

\* Game::player_turn
player_turn(g, input) ==
    Bind(IF input = "Wait"
         THEN [world |-> wait(g.world, g.player), result |-> "Ok"]
         ELSE IF input \in FireInputs
         THEN [world |-> player_fire(g.world, g.player, input), result |-> "Ok"]
         ELSE character_walk_in_direction(g.world, g.player, input), LAMBDA r :
    IF r.result = "Panic" THEN [g |-> [g EXCEPT !.panic = TRUE], result |-> "Panic"]
    ELSE IF r.result \in {"Ok", "Upgrade"}
    THEN [g |-> [g EXCEPT
                    !.world = r.world,
                    !.after_player_turn_countdown =
                        IF is_gameplay_blocked(r.world) THEN Some(0) ELSE @,
                    !.before_npc_turn_cooldown =
                        IF is_gameplay_blocked(r.world) THEN Some(NpcCooldownMs) ELSE @,
                    !.turn_during_animation = Some("Player")],
          result |-> "Ok"]
    ELSE [g |-> [g EXCEPT !.world = r.world], result |-> r.result])

\* the turn of Game::handle_input recomputing the visibility grid before the
\* player's action instead of after it
InputTurn_early_grid(g, input, config) ==
    Bind(player_turn(update_visibility(g, config), input), LAMBDA r :
    IF r.result = "Panic" THEN [g |-> r.g, ret |-> "Panic"]
    ELSE IF r.result # "Ok" THEN [g |-> r.g, ret |-> r.result]
    ELSE Bind(update_last_player_info(r.g), LAMBDA g1 :
         [g |-> g1, ret |-> ControlFlow(g1)]))

\* the turn of Game::handle_input without the refresh of the visibility grid
InputTurn_stale_grid(g, input, config) ==
    Bind(player_turn(g, input), LAMBDA r :
    IF r.result = "Panic" THEN [g |-> r.g, ret |-> "Panic"]
    ELSE IF r.result # "Ok" THEN [g |-> r.g, ret |-> r.result]
    ELSE Bind(update_last_player_info(r.g), LAMBDA g1 :
         [g |-> g1, ret |-> ControlFlow(g1)]))

\* Game::handle_input, lines 268-282: the turn, the refresh of the cached
\* player info and of the visibility grid, and the GameOver / Win / None tail
InputTurn(g, input, config) ==
    Bind(player_turn(g, input), LAMBDA r :
    IF r.result = "Panic" THEN [g |-> r.g, ret |-> "Panic"]
    ELSE IF r.result # "Ok" THEN [g |-> r.g, ret |-> r.result]
    ELSE Bind(update_last_player_info(r.g), LAMBDA g1 :
         Bind(update_visibility(g1, config), LAMBDA g2 :
         [g |-> g2, ret |-> ControlFlow(g2)])))

\* Game::handle_input without the early return on a pending level generation
handle_input_no_generate_guard(g, input, config) ==
    IF ~is_gameplay_blocked(g.world) /\ ~IsSome(g.turn_during_animation)
    THEN InputTurn(g, input, config)
    ELSE [g |-> g, ret |-> ControlFlow(g)]

\* Game::handle_input that takes the player's turn whatever the turn state
handle_input_no_turn_guard(g, input, config) ==
    IF IsSome(g.generate_frame_countdown)
    THEN [g |-> g, ret |-> "None"]
    ELSE InputTurn(g, input, config)

\* Game::handle_input; ret is "None" | "GameOver" | "Win" for Ok(..),
\* "WalkIntoSolidCell" for Err(..), "Panic" when the call does not return
handle_input(g, input, config) ==
    IF IsSome(g.generate_frame_countdown)
    THEN [g |-> g, ret |-> "None"]
    ELSE IF ~is_gameplay_blocked(g.world) /\ ~IsSome(g.turn_during_animation)
    THEN InputTurn(g, input, config)
    ELSE [g |-> g, ret |-> ControlFlow(g)]

\* Duration::checked_sub, zero when it fails
SaturatingSub(countdown, d) == IF countdown >= d THEN countdown - d ELSE 0

\* Game::handle_tick_inner, lines 247-255: the refresh and the verdict
TickVerdict(g, config) ==
    Bind(update_visibility(g, config), LAMBDA g1 :
    Bind(update_last_player_info(g1), LAMBDA g2 :
    [g |-> g2, ret |-> IF ControlFlow(g2) = "None" THEN "Continue" ELSE ControlFlow(g2)]))

\* Game::handle_tick_inner leaving the turn marker set after the NPC turn
handle_tick_inner_keeps_marker(g, since_last_tick, config, acts, hull_roll) ==
    Bind(animation_tick(g.world, g.events, hull_roll), LAMBDA a :
    Bind([g EXCEPT !.world = a.world,
                   !.events = a.events,
                   !.animation_rng = Draws(@, a.rolls),
                   !.obs.frames = @ + 1], LAMBDA g1 :
    IF ~is_gameplay_blocked(g1.world) /\ IsSome(g1.turn_during_animation)
    THEN Bind(npc_turn(g1, acts), LAMBDA g2 :
         IF g2.panic THEN [g |-> g2, ret |-> "Panic"] ELSE TickVerdict(g2, config))
    ELSE TickVerdict(g1, config)))

\* Game::handle_tick_inner processing the turn whether or not gameplay is
\* blocked
handle_tick_inner_while_blocked(g, since_last_tick, config, acts, hull_roll) ==
    Bind(animation_tick(g.world, g.events, hull_roll), LAMBDA a :
    Bind([g EXCEPT !.world = a.world,
                   !.events = a.events,
                   !.animation_rng = Draws(@, a.rolls),
                   !.obs.frames = @ + 1], LAMBDA g1 :
    LET turn == IsSome(g1.turn_during_animation)
        after == g1.after_player_turn_countdown
        before == g1.before_npc_turn_cooldown
    IN IF turn /\ IsSome(after)
       THEN IF Unwrap(after) = 0
            THEN Bind([g1 EXCEPT !.after_player_turn_countdown = None], LAMBDA g2 :
                 [g |-> after_turn(g2), ret |-> "Continue"])
            ELSE [g |-> [g1 EXCEPT !.after_player_turn_countdown =
                             Some(SaturatingSub(Unwrap(after), since_last_tick))],
                  ret |-> "Continue"]
       ELSE IF turn /\ IsSome(before)
       THEN IF Unwrap(before) = 0
            THEN [g |-> [g1 EXCEPT !.before_npc_turn_cooldown = None],
                  ret |-> "Continue"]
            ELSE [g |-> [g1 EXCEPT !.before_npc_turn_cooldown =
                             Some(SaturatingSub(Unwrap(before), since_last_tick))],
                  ret |-> "Continue"]
       ELSE IF turn
       THEN Bind(IF Unwrap(g1.turn_during_animation) = "Player"
                 THEN npc_turn(g1, acts)
                 ELSE g1, LAMBDA g2 :
            IF g2.panic THEN [g |-> g2, ret |-> "Panic"]
            ELSE Bind([g2 EXCEPT !.turn_during_animation = None], LAMBDA g3 :
                 TickVerdict(g3, config)))
       ELSE TickVerdict(g1, config)))

\* Game::handle_tick_inner taking the draws of the animation step from the
\* stream of the turns
handle_tick_inner_one_stream(g, since_last_tick, config, acts, hull_roll) ==
    Bind(animation_tick(g.world, g.events, hull_roll), LAMBDA a :
    Bind([g EXCEPT !.world = a.world,
                   !.events = a.events,
                   !.rng = Draws(@, a.rolls),
                   !.obs.frames = @ + 1], LAMBDA g1 :
    LET turn == ~is_gameplay_blocked(g1.world) /\ IsSome(g1.turn_during_animation)
        after == g1.after_player_turn_countdown
        before == g1.before_npc_turn_cooldown
    IN IF turn /\ IsSome(after)
       THEN IF Unwrap(after) = 0
            THEN Bind([g1 EXCEPT !.after_player_turn_countdown = None], LAMBDA g2 :
                 [g |-> after_turn(g2), ret |-> "Continue"])
            ELSE [g |-> [g1 EXCEPT !.after_player_turn_countdown =
                             Some(SaturatingSub(Unwrap(after), since_last_tick))],
                  ret |-> "Continue"]
       ELSE IF turn /\ IsSome(before)
       THEN IF Unwrap(before) = 0
            THEN [g |-> [g1 EXCEPT !.before_npc_turn_cooldown = None],
                  ret |-> "Continue"]
            ELSE [g |-> [g1 EXCEPT !.before_npc_turn_cooldown =
                             Some(SaturatingSub(Unwrap(before), since_last_tick))],
                  ret |-> "Continue"]
       ELSE IF turn
       THEN Bind(IF Unwrap(g1.turn_during_animation) = "Player"
                 THEN npc_turn(g1, acts)
                 ELSE g1, LAMBDA g2 :
            IF g2.panic THEN [g |-> g2, ret |-> "Panic"]
            ELSE Bind([g2 EXCEPT !.turn_during_animation = None], LAMBDA g3 :
                 TickVerdict(g3, config)))
       ELSE TickVerdict(g1, config)))

\* Game::handle_tick_inner running the NPC turn whether or not the turn
\* marker is set
handle_tick_inner_unmarked_turn(g, since_last_tick, config, acts, hull_roll) ==
    Bind(animation_tick(g.world, g.events, hull_roll), LAMBDA a :
    Bind([g EXCEPT !.world = a.world,
                   !.events = a.events,
                   !.animation_rng = Draws(@, a.rolls),
                   !.obs.frames = @ + 1], LAMBDA g1 :
    LET turn == ~is_gameplay_blocked(g1.world)
        after == g1.after_player_turn_countdown
        before == g1.before_npc_turn_cooldown
    IN IF turn /\ IsSome(after)
       THEN IF Unwrap(after) = 0
            THEN Bind([g1 EXCEPT !.after_player_turn_countdown = None], LAMBDA g2 :
                 [g |-> after_turn(g2), ret |-> "Continue"])
            ELSE [g |-> [g1 EXCEPT !.after_player_turn_countdown =
                             Some(SaturatingSub(Unwrap(after), since_last_tick))],
                  ret |-> "Continue"]
       ELSE IF turn /\ IsSome(before)
       THEN IF Unwrap(before) = 0
            THEN [g |-> [g1 EXCEPT !.before_npc_turn_cooldown = None],
                  ret |-> "Continue"]
            ELSE [g |-> [g1 EXCEPT !.before_npc_turn_cooldown =
                             Some(SaturatingSub(Unwrap(before), since_last_tick))],
                  ret |-> "Continue"]
       ELSE IF turn
       THEN Bind(IF g1.turn_during_animation # Some("Npc")
                 THEN npc_turn(g1, acts)
                 ELSE g1, LAMBDA g2 :
            IF g2.panic THEN [g |-> g2, ret |-> "Panic"]
            ELSE Bind([g2 EXCEPT !.turn_during_animation = None], LAMBDA g3 :
                 TickVerdict(g3, config)))
       ELSE TickVerdict(g1, config)))

\* Game::handle_tick_inner: one animation quantum.  ret "Continue" stands
\* for the None that lets the frame loop of handle_tick go on.
handle_tick_inner(g, since_last_tick, config, acts, hull_roll) ==
    Bind(animation_tick(g.world, g.events, hull_roll), LAMBDA a :
    Bind([g EXCEPT !.world = a.world,
                   !.events = a.events,
                   !.animation_rng = Draws(@, a.rolls),
                   !.obs.frames = @ + 1], LAMBDA g1 :
    LET turn == ~is_gameplay_blocked(g1.world) /\ IsSome(g1.turn_during_animation)
        after == g1.after_player_turn_countdown
        before == g1.before_npc_turn_cooldown
    IN IF turn /\ IsSome(after)
       THEN IF Unwrap(after) = 0
            THEN Bind([g1 EXCEPT !.after_player_turn_countdown = None], LAMBDA g2 :
                 [g |-> after_turn(g2), ret |-> "Continue"])
            ELSE [g |-> [g1 EXCEPT !.after_player_turn_countdown =
                             Some(SaturatingSub(Unwrap(after), since_last_tick))],
                  ret |-> "Continue"]
       ELSE IF turn /\ IsSome(before)
       THEN IF Unwrap(before) = 0
            THEN [g |-> [g1 EXCEPT !.before_npc_turn_cooldown = None],
                  ret |-> "Continue"]
            ELSE [g |-> [g1 EXCEPT !.before_npc_turn_cooldown =
                             Some(SaturatingSub(Unwrap(before), since_last_tick))],
                  ret |-> "Continue"]
       ELSE IF turn
       THEN Bind(IF Unwrap(g1.turn_during_animation) = "Player"
                 THEN npc_turn(g1, acts)
                 ELSE g1, LAMBDA g2 :
            IF g2.panic THEN [g |-> g2, ret |-> "Panic"]
            ELSE Bind([g2 EXCEPT !.turn_during_animation = None], LAMBDA g3 :
                 TickVerdict(g3, config)))
       ELSE TickVerdict(g1, config)))

\* the frame loop of Game::handle_tick
RECURSIVE Frames(_, _, _, _, _)
Frames(g, since_last_tick, config, acts, hull_roll) ==
    IF g.since_last_frame < ANIMATION_FRAME_DURATION
    THEN [g |-> g, ret |-> "None"]
    ELSE Bind([g EXCEPT !.since_last_frame = @ - ANIMATION_FRAME_DURATION], LAMBDA g1 :
         Bind(handle_tick_inner(g1, since_last_tick, config, acts, hull_roll), LAMBDA r :
         IF r.ret # "Continue" THEN r
         ELSE Frames(r.g, since_last_tick, config, acts, hull_roll)))

\* Game::handle_tick running the frame loop while the countdown is pending
handle_tick_counting_frames(g, since_last_tick, config, acts, hull_roll) ==
    IF IsSome(g.generate_frame_countdown) /\ Unwrap(g.generate_frame_countdown) = 0
    THEN [g |-> [generate_level(g, config) EXCEPT !.generate_frame_countdown = None],
          ret |-> "LevelChange"]
    ELSE Bind([g EXCEPT !.since_last_frame = @ + since_last_tick,
                        !.generate_frame_countdown =
                            IF IsSome(@) THEN Some(SaturatingSub(Unwrap(@), since_last_tick))
                            ELSE @], LAMBDA g1 :
         Frames(g1, since_last_tick, config, acts, hull_roll))

\* Game::handle_tick
handle_tick(g, since_last_tick, config, acts, hull_roll) ==
    IF IsSome(g.generate_frame_countdown)
    THEN IF Unwrap(g.generate_frame_countdown) = 0
         THEN [g |-> [generate_level(g, config)
                         EXCEPT !.generate_frame_countdown = None],
               ret |-> "LevelChange"]
         ELSE [g |-> [g EXCEPT !.generate_frame_countdown =
                          Some(SaturatingSub(Unwrap(@), since_last_tick))],
               ret |-> "None"]
    ELSE Bind([g EXCEPT !.since_last_frame = @ + since_last_tick], LAMBDA g1 :
         Frames(g1, since_last_tick, config, acts, hull_roll))

\* Game::events handing out the events and keeping them
Game_events_keeping(g) ==
    [g |-> g, ret |-> g.events]

\* Game::events: ret is what the iterator yields, g what is left once it is
\* dropped (Vec::drain removes the range whether or not it is consumed)
Game_events(g) ==
    [g |-> [g EXCEPT !.events = <<>>], ret |-> g.events]

\* Game::handle_npc_turn clearing the turn marker once the turn has run
handle_npc_turn_clearing_marker(g, acts) ==
    IF ~is_gameplay_blocked(g.world)
    THEN Bind([g EXCEPT !.world = process_door_close_countdown(@)], LAMBDA g1 :
         Bind(npc_turn(g1, acts), LAMBDA g2 :
         [g2 EXCEPT !.turn_during_animation = None]))
    ELSE g

\* Game::handle_npc_turn
handle_npc_turn(g, acts) ==
    IF ~is_gameplay_blocked(g.world)
    THEN Bind([g EXCEPT !.world = process_door_close_countdown(@)], LAMBDA g1 :
         npc_turn(g1, acts))
    ELSE g

\* ----------------------------------------------------------- state machine
VARIABLES
    world, visibility_grid, player, last_player_info, rng, animation_rng,
    events, agents, agents_to_remove, since_last_frame,
    generate_frame_countdown, after_player_turn_countdown,
    before_npc_turn_cooldown, dead_player, turn_during_animation,
    gameplay_music,
    config,     \* the Config the caller passes to every call
    panicked,   \* a call hit panic!() / expect(): the process is gone
    call        \* the last call: its operation, its return value and what
                \* happened inside it

game_vars ==
    <<world, visibility_grid, player, last_player_info, rng, animation_rng,
      events, agents, agents_to_remove, since_last_frame,
      generate_frame_countdown, after_player_turn_countdown,
      before_npc_turn_cooldown, dead_player, turn_during_animation,
      gameplay_music>>

vars == <<game_vars, config, panicked, call>>

\* the Game value held by the variables, at the start of a call
Self ==
    [world |-> world, visibility_grid |-> visibility_grid, player |-> player,
     last_player_info |-> last_player_info, rng |-> rng,
     animation_rng |-> animation_rng, events |-> events, agents |-> agents,
     agents_to_remove |-> agents_to_remove, since_last_frame |-> since_last_frame,
     generate_frame_countdown |-> generate_frame_countdown,
     after_player_turn_countdown |-> after_player_turn_countdown,
     before_npc_turn_cooldown |-> before_npc_turn_cooldown,
     dead_player |-> dead_player, turn_during_animation |-> turn_during_animation,
     gameplay_music |-> gameplay_music, panic |-> FALSE, obs |-> NoObs]

\* the variables take the fields of g
Becomes(g) ==
    /\ world' = g.world
    /\ visibility_grid' = g.visibility_grid
    /\ player' = g.player
    /\ last_player_info' = g.last_player_info
    /\ rng' = g.rng
    /\ animation_rng' = g.animation_rng
    /\ events' = g.events
    /\ agents' = g.agents
    /\ agents_to_remove' = g.agents_to_remove
    /\ since_last_frame' = g.since_last_frame
    /\ generate_frame_countdown' = g.generate_frame_countdown
    /\ after_player_turn_countdown' = g.after_player_turn_countdown
    /\ before_npc_turn_cooldown' = g.before_npc_turn_cooldown
    /\ dead_player' = g.dead_player
    /\ turn_during_animation' = g.turn_during_animation
    /\ gameplay_music' = g.gameplay_music
    /\ panicked' = g.panic
    /\ UNCHANGED config

\* inputs
Inputs == CardinalDirections \cup {"Wait"}
NpcActions == CardinalDirections \cup {"Wait"}
TickDurations == {40, 80}
Configs == {[omniscient |-> FALSE]}
MusicShuffles == {<<"Gameplay2", "Gameplay0", "Gameplay1">>}

\* the record of a call: op, ret, and from g.obs whether a cleanup recorded
\* the player's death and how many NPC turns ran
Call(op, ret, g) ==
    [op |-> op, ret |-> ret, died |-> g.obs.died, npc_turns |-> Len(g.obs.npc_turns)]

\* Game::new
InitFrom(players, layouts) ==
    \E player_data \in players :
    \E layout \in layouts, music \in MusicShuffles, cfg \in Configs :
    \E terrain \in {space_station(0, player_data, layout)} :
    \E g \in {update_visibility(
                 [world |-> terrain.world,
                  visibility_grid |-> visibility_new,
                  player |-> terrain.player,
                  last_player_info |->
                      Unwrap(character_info(terrain.world, terrain.player)),
                  rng |-> 0,
                  animation_rng |-> 0,
                  events |-> <<[type |-> "LoopMusic", arg |-> music[1]]>>,
                  agents |-> terrain.agents,
                  agents_to_remove |-> {},
                  since_last_frame |-> 0,
                  generate_frame_countdown |-> None,
                  after_player_turn_countdown |-> None,
                  before_npc_turn_cooldown |-> None,
                  dead_player |-> None,
                  turn_during_animation |-> None,
                  gameplay_music |-> music,
                  panic |-> FALSE,
                  obs |-> NoObs], cfg)} :
        /\ world = g.world
        /\ visibility_grid = g.visibility_grid
        /\ player = g.player
        /\ last_player_info = g.last_player_info
        /\ rng = g.rng
        /\ animation_rng = g.animation_rng
        /\ events = g.events
        /\ agents = g.agents
        /\ agents_to_remove = g.agents_to_remove
        /\ since_last_frame = g.since_last_frame
        /\ generate_frame_countdown = g.generate_frame_countdown
        /\ after_player_turn_countdown = g.after_player_turn_countdown
        /\ before_npc_turn_cooldown = g.before_npc_turn_cooldown
        /\ dead_player = g.dead_player
        /\ turn_during_animation = g.turn_during_animation
        /\ gameplay_music = g.gameplay_music
        /\ config = cfg
        /\ panicked = FALSE
        /\ call = Call("new", "None", g)

InitWith(layouts) == InitFrom({make_player(TRUE)}, layouts)

Init == InitWith(FirstLayouts)

\* Game::new on a level with a projectile in flight
ProjectileLayouts ==
    {Layout({NpcEntity, WallEntity}, FALSE, bullet) : bullet \in Bullets \cup PiercingBullets \cup StoppingBullets}
InitProjectiles == InitWith(ProjectileLayouts)

\* the draws a call can consume: agents decide only if an NPC turn can run,
\* the hull roll is drawn only while a projectile is in flight
ActChoices(may_act) ==
    IF may_act THEN [agents -> NpcActions] ELSE {[e \in agents |-> "Wait"]}
TickActChoices ==
    ActChoices(IsSome(turn_during_animation) /\ ~IsSome(generate_frame_countdown))
RollChoices ==
    IF DOMAIN world.realtime_components.movement # {} THEN BOOLEAN ELSE {FALSE}

HandleInput ==
    /\ ~panicked
    /\ \E input \in Inputs :
          \E r \in {handle_input(Self, input, config)} :
              /\ Becomes(r.g)
              /\ call' = Call("handle_input", r.ret, r.g)

HandleTick ==
    /\ ~panicked
    /\ \E d \in TickDurations, acts \in TickActChoices, hull_roll \in RollChoices :
          \E r \in {handle_tick(Self, d, config, acts, hull_roll)} :
              /\ r.g.since_last_frame <= MaxResidual
              /\ Becomes(r.g)
              /\ call' = Call("handle_tick", r.ret, r.g)

HandleNpcTurn ==
    /\ ~panicked
    /\ \E acts \in ActChoices(~is_gameplay_blocked(world)) :
          \E g \in {handle_npc_turn(Self, acts)} :
              /\ Becomes(g)
              /\ call' = Call("handle_npc_turn", IF g.panic THEN "Panic" ELSE "Unit", g)

Events ==
    /\ ~panicked
    /\ \E r \in {Game_events(Self)} :
          /\ Becomes(r.g)
          /\ call' = Call("events", "Unit", Self)

Next == HandleInput \/ HandleTick \/ HandleNpcTurn \/ Events

Spec == Init /\ [][Next]_vars

\* the program under a caller that delivers every frame: handle_tick keeps
\* being called
SpecTicking == Spec /\ WF_vars(HandleTick)

\* the ordinary cycle of play: the caller sends inputs and frames, keeps
\* doing both, and never calls handle_npc_turn
NextPlay == HandleInput \/ HandleTick \/ Events
SpecPlay == Init /\ [][NextPlay]_vars /\ WF_vars(HandleInput) /\ WF_vars(HandleTick)

\* the program started on a level with a projectile in flight
SpecProjectiles == InitProjectiles /\ [][Next]_vars

\* Game::new on a level with two NPCs next to each other
CrowdLayouts == {Layout(NpcEntities, FALSE, NoBullet)}
InitCrowd == InitWith(CrowdLayouts)
SpecCrowd == InitCrowd /\ [][Next]_vars

\* a game in which the player can shoot: the caller sends inputs, shots and
\* ticks
InitFiring == InitWith({Layout({NpcEntity, WallEntity}, FALSE, NoBullet)})
HandleFire ==
    /\ ~panicked
    /\ \E input \in FireInputs :
          \E r \in {handle_input(Self, input, config)} :
              /\ Becomes(r.g)
              /\ call' = Call("handle_input", r.ret, r.g)
NextFiring == HandleInput \/ HandleFire \/ HandleTick \/ Events
SpecFiring == InitFiring /\ [][NextFiring]_vars

\* the player's data with the fields apply_upgrade works on: a credit, an
\* empty upgrade table, no ranged weapon slot and no trait
MaxCredit == 8
make_upgradable_player(credit) ==
    [make_player(TRUE) EXCEPT !.player =
        @ @@ [credit |-> credit,
              upgrade_table |-> [t \in UpgradeTypes |-> None],
              ranged_weapons |-> <<>>,
              reduce_hull_pen |-> FALSE,
              half_vacuum_pull |-> FALSE]]

\* Game::new for a player with some credit
InitUpgrades ==
    InitFrom({make_upgradable_player(credit) : credit \in 0 .. MaxCredit},
             {Layout({NpcEntity, WallEntity}, FALSE, NoBullet)})

\* a call of World::apply_upgrade for the player
ApplyUpgrade ==
    /\ ~panicked
    /\ \E upgrade \in Upgrades :
          \E r \in {apply_upgrade(world, player, upgrade)} :
              /\ world' = r.world
              /\ panicked' = (r.result = "Panic")
              /\ call' = [op |-> "apply_upgrade", ret |-> r.result,
                          died |-> FALSE, npc_turns |-> 0]
              /\ UNCHANGED <<visibility_grid, player, last_player_info, rng,
                             animation_rng, events, agents, agents_to_remove,
                             since_last_frame, generate_frame_countdown,
                             after_player_turn_countdown, before_npc_turn_cooldown,
                             dead_player, turn_during_animation, gameplay_music,
                             config>>

\* the upgrade shop: the caller buys upgrades for the player
SpecUpgrades == InitUpgrades /\ [][ApplyUpgrade]_vars

\* ------------------------------------------------------------------- decks
\* player::Tech, three of its cards
DeckItems == {"Blink", "Attract", "Repel"}

\* the deck's max_size (Player::new gives the tech deck 8)
MaxDeckSize == 4

Reverse(seq) == [i \in 1 .. Len(seq) |-> seq[Len(seq) + 1 - i]]

\* Deck::iter: the items from the last pushed to the first
Deck_iter(deck) == Reverse(deck.items)

\* Deck::len
Deck_len(deck) == Len(deck.items)

\* Deck::max_size
Deck_max_size(deck) == deck.max_size

\* Deck::pop: Vec::pop, the last item if there is one
Deck_pop(deck) ==
    IF deck.items = <<>> THEN [deck |-> deck, ret |-> None]
    ELSE [deck |-> [deck EXCEPT !.items = SubSeq(@, 1, Len(@) - 1)],
          ret |-> Some(deck.items[Len(deck.items)])]

\* Deck::peek: Vec::last
Deck_peek(deck) ==
    IF deck.items = <<>> THEN None ELSE Some(deck.items[Len(deck.items)])

\* Deck::push without the test of the size
Deck_push_unbounded(deck, item) ==
    [deck |-> [deck EXCEPT !.items = Append(@, item)], result |-> "Ok"]

\* Deck::push
Deck_push(deck, item) ==
    IF Len(deck.items) < deck.max_size
    THEN [deck |-> [deck EXCEPT !.items = Append(@, item)], result |-> "Ok"]
    ELSE [deck |-> deck, result |-> "DeckIsFull"]

\* Player::new: the tech deck holds the listed cards reversed, one short of
\* its max_size
make_deck_player ==
    [make_player(TRUE) EXCEPT !.player =
        @ @@ [tech |-> [items |-> Reverse(<<"Blink", "Attract", "Repel">>),
                        max_size |-> MaxDeckSize]]]

\* Game::new for a player with a tech deck
InitDeck == InitFrom({make_deck_player}, {Layout({NpcEntity, WallEntity}, FALSE, NoBullet)})

\* the player's tech deck
TechDeck == world.components.player[player].tech

\* the variables a call on the deck leaves alone
DeckFrame ==
    UNCHANGED <<visibility_grid, player, last_player_info, rng, animation_rng,
                events, agents, agents_to_remove, since_last_frame,
                generate_frame_countdown, after_player_turn_countdown,
                before_npc_turn_cooldown, dead_player, turn_during_animation,
                gameplay_music, config, panicked>>

\* a call of Deck::push on the player's tech deck
DeckPush ==
    \E item \in DeckItems :
        \E r \in {Deck_push(TechDeck, item)} :
            /\ world' = [world EXCEPT !.components.player[player].tech = r.deck]
            /\ call' = [op |-> "push", ret |-> r.result, died |-> FALSE, npc_turns |-> 0]
            /\ DeckFrame

\* a call of Deck::pop on the player's tech deck
DeckPop ==
    \E r \in {Deck_pop(TechDeck)} :
        /\ world' = [world EXCEPT !.components.player[player].tech = r.deck]
        /\ call' = [op |-> "pop", ret |-> IF IsSome(r.ret) THEN Unwrap(r.ret) ELSE "None",
                    died |-> FALSE, npc_turns |-> 0]
        /\ DeckFrame

NextDeck == DeckPush \/ DeckPop
SpecDeck == InitDeck /\ [][NextDeck]_vars

\* a level with a projectile in flight under a caller that delivers every
\* frame
SpecProjectilesTicking == SpecProjectiles /\ WF_vars(HandleTick)

\* ------------------------------------------------------------------ claims
\* what one call of each operation does to the current state
InputResult(input) == handle_input(Self, input, config)
TickResult(d, acts, hull_roll) == handle_tick(Self, d, config, acts, hull_roll)

\* C1: no two distinct entities occupy the same coordinate on the same layer
\* of the spatial index, after any sequence of calls
SpatialInvariant ==
    \A e1, e2 \in DOMAIN world.spatial_table :
        (/\ e1 # e2
         /\ world.spatial_table[e1].layer # NoLayer
         /\ world.spatial_table[e1].layer = world.spatial_table[e2].layer)
        => world.spatial_table[e1].coord # world.spatial_table[e2].coord

\* the player walked into the NPC's cell: the walk was refused, the NPC was
\* hit and knocked back two cells away
WitnessC1 ==
    /\ call.op = "handle_input"
    /\ Contains(world.components.to_remove, NpcEntity)
    /\ Distance(entity_coord(world, PlayerEntity), entity_coord(world, NpcEntity)) = 2

\* C2 (as stated): whenever character_walk_in_direction returns
\* WalkIntoSolidCell, for any character and direction, the world it leaves is
\* the world it was given
WalkErrorLeavesWorld ==
    \A character \in DOMAIN world.components.character, direction \in CardinalDirections :
        (/\ entity_exists(world, character)
         /\ character \in DOMAIN world.spatial_table)
        => LET r == character_walk_in_direction(world, character, direction)
           IN r.result = "WalkIntoSolidCell" => r.world = world

\* C3: while a level-generation countdown is pending, handle_input returns
\* Ok(None) for every input and changes no field of the game
NoOpWhileGenerating ==
    IsSome(generate_frame_countdown) =>
        \A input \in Inputs :
            /\ InputResult(input).ret = "None"
            /\ InputResult(input).g = Self

\* handle_input has just returned with the countdown pending
WitnessC3 ==
    /\ call.op = "handle_input"
    /\ call.ret = "None"
    /\ IsSome(generate_frame_countdown)
    /\ Unwrap(generate_frame_countdown) < GenerateCountdownMs

\* C4: when gameplay is blocked or a turn marker is set, handle_input leaves
\* the world, the gameplay RNG, the turn marker and both post-turn countdowns
\* unchanged
InputWithheld ==
    (is_gameplay_blocked(world) \/ IsSome(turn_during_animation)) =>
        \A input \in Inputs :
            LET r == InputResult(input)
            IN /\ r.g.world = world
               /\ r.g.rng = rng
               /\ r.g.turn_during_animation = turn_during_animation
               /\ r.g.after_player_turn_countdown = after_player_turn_countdown
               /\ r.g.before_npc_turn_cooldown = before_npc_turn_cooldown
               /\ r.ret \in {"None", "GameOver", "Win"}

\* handle_input has just returned in a world where a projectile is in flight
WitnessC4 ==
    /\ call.op = "handle_input"
    /\ is_gameplay_blocked(world)
    /\ turn_during_animation = None

\* C5: when handle_input applies an action, success leaves the turn marker at
\* Some(Player); an ActionError is returned and leaves the turn marker, both
\* countdowns, the cached player info and the visibility grid unchanged
InputApplied ==
    (/\ ~IsSome(generate_frame_countdown)
     /\ ~is_gameplay_blocked(world)
     /\ ~IsSome(turn_during_animation)) =>
        \A input \in Inputs :
            LET r == InputResult(input)
            IN /\ r.ret \in {"None", "GameOver", "Win"} =>
                      r.g.turn_during_animation = Some("Player")
               /\ r.ret = "WalkIntoSolidCell" =>
                      /\ r.g.turn_during_animation = turn_during_animation
                      /\ r.g.after_player_turn_countdown = after_player_turn_countdown
                      /\ r.g.before_npc_turn_cooldown = before_npc_turn_cooldown
                      /\ r.g.last_player_info = last_player_info
                      /\ r.g.visibility_grid = visibility_grid

\* handle_input has just returned the error of a walk into a solid cell
WitnessC5 ==
    /\ call.op = "handle_input"
    /\ call.ret = "WalkIntoSolidCell"
    /\ turn_during_animation = None

\* the tick's arguments: every duration, every decision the agents can take
\* in a call that may run their turn, and the roll a hit on the hull can draw
TickArgs == TickDurations \X TickActChoices \X RollChoices

CountdownOnly ==
    \A args \in TickArgs :
        LET r == TickResult(args[1], args[2], args[3])
            d == args[1]
        IN IF ~IsSome(generate_frame_countdown)
           THEN r.ret # "LevelChange" /\ ~r.g.obs.regenerated
           ELSE LET c == Unwrap(generate_frame_countdown)
                IN IF c = 0
                   THEN /\ r.ret = "LevelChange"
                        /\ r.g.obs.regenerated
                        /\ r.g.world.level = world.level + 1
                        /\ r.g.generate_frame_countdown = None
                        /\ r.g.since_last_frame = since_last_frame
                        /\ r.g.obs.frames = 0
                        /\ r.g.obs.npc_turns = <<>>
                   ELSE /\ r.ret = "None"
                        /\ r.g = [Self EXCEPT !.generate_frame_countdown =
                                      Some(IF c > d THEN c - d ELSE 0)]

\* handle_tick has just regenerated the level and returned LevelChange
WitnessC7 ==
    /\ call.op = "handle_tick"
    /\ call.ret = "LevelChange"
    /\ world.level = 1
    /\ generate_frame_countdown = None

\* C8: a handle_input or handle_tick call in which a cleanup records the
\* player's death returns GameOver, and one in which the win condition becomes
\* true (with no death on record) returns Win
VerdictInSameCall ==
    /\ \A input \in Inputs :
          LET r == InputResult(input)
          IN /\ r.g.obs.died => r.ret = "GameOver"
             /\ (~is_won(world) /\ is_won(r.g.world) /\ ~IsSome(r.g.dead_player))
                    => r.ret = "Win"
    /\ \A args \in TickArgs :
          LET r == TickResult(args[1], args[2], args[3])
          IN /\ r.g.obs.died => r.ret = "GameOver"
             /\ (~is_won(world) /\ is_won(r.g.world) /\ ~IsSome(r.g.dead_player))
                    => r.ret = "Win"

\* handle_tick has just run the NPC turn that killed the player and returned
\* GameOver
WitnessC8 ==
    /\ call.op = "handle_tick"
    /\ call.died
    /\ call.ret = "GameOver"
    /\ IsSome(dead_player)

\* C9: once set, dead_player never changes; the player entity's data is gone
\* from the world only when dead_player holds it; and player() always finds
\* player data, in the world or in dead_player
DeathIsDurable ==
    /\ [](\/ Contains(world.components.player, player)
          \/ /\ IsSome(dead_player)
             /\ "player" \in DOMAIN Unwrap(dead_player))
    /\ [][IsSome(dead_player) => dead_player' = dead_player]_vars

\* a later handle_input returned with the player's entity gone and the record
\* of the death in place
WitnessC9 ==
    /\ call.op = "handle_input"
    /\ call.ret = "GameOver"
    /\ IsSome(dead_player)
    /\ ~Contains(world.components.player, player)

\* C11 (as stated): in every handle_tick call without a pending generation
\* countdown the number of animation steps executed is the whole number of
\* quanta in the accumulated time, floor((since_last_frame + since_last_tick)
\* / ANIMATION_FRAME_DURATION), and the residual left in since_last_frame is
\* strictly less than one quantum, so that the steps of a total duration do
\* not depend on how it is split into calls
FrameQuantization ==
    ~IsSome(generate_frame_countdown) =>
        \A args \in TickArgs :
            LET r == TickResult(args[1], args[2], args[3])
            IN ~r.g.panic =>
                  /\ r.g.obs.frames = (since_last_frame + args[1]) \div ANIMATION_FRAME_DURATION
                  /\ r.g.since_last_frame < ANIMATION_FRAME_DURATION

\* C12: while gameplay is blocked handle_npc_turn changes nothing, and a
\* handle_tick that returns with gameplay still blocked has advanced every
\* projectile in flight but left the turn marker, both post-turn countdowns,
\* the death record and the generation countdown as they were and has run no
\* NPC turn and no cleanup; when the call unblocks gameplay with the marker at
\* Some(Player), the NPC turn it runs finds the marker that was set before the
\* block
BlockedKeepsTurn ==
    (is_gameplay_blocked(world) /\ ~IsSome(generate_frame_countdown)) =>
        /\ \A acts \in [agents -> NpcActions] : handle_npc_turn(Self, acts) = Self
        /\ \A args \in TickArgs :
              LET r == TickResult(args[1], args[2], args[3])
                  moving == DOMAIN world.realtime_components.movement
                  still_moving == DOMAIN r.g.world.realtime_components.movement
              IN IF is_gameplay_blocked(r.g.world)
                 THEN /\ r.g.turn_during_animation = turn_during_animation
                      /\ r.g.after_player_turn_countdown = after_player_turn_countdown
                      /\ r.g.before_npc_turn_cooldown = before_npc_turn_cooldown
                      /\ r.g.obs.npc_turns = <<>>
                      /\ ~r.g.obs.died
                      /\ r.g.dead_player = dead_player
                      /\ r.g.generate_frame_countdown = generate_frame_countdown
                      /\ r.g.world.components.to_remove = world.components.to_remove
                      /\ r.g.obs.frames >= 1
                      /\ \A e \in moving \cap still_moving :
                            coord_of(r.g.world.spatial_table, e) # coord_of(world.spatial_table, e)
                 ELSE (turn_during_animation = Some("Player") /\ ~r.g.panic) =>
                          /\ Len(r.g.obs.npc_turns) = 1
                          /\ r.g.obs.npc_turns[1].turn = turn_during_animation
                          /\ r.g.turn_during_animation = None

\* handle_tick has just returned with the projectile two cells further, still
\* in flight, and the turn marker of the player's last action still set
WitnessC12 ==
    /\ call.op = "handle_tick"
    /\ call.npc_turns = 0
    /\ is_gameplay_blocked(world)
    /\ turn_during_animation = Some("Player")
    /\ coord_of(world.spatial_table, BulletEntity) = <<2, 0>>

\* C13: under a caller that keeps calling handle_tick, a set turn marker is
\* eventually unset (or the program has panicked, or the frame accumulator has
\* reached the bound of the model)
MarkerDrains ==
    IsSome(turn_during_animation) ~>
        \/ turn_during_animation = None
        \/ panicked
        \/ since_last_frame > MaxResidual - ANIMATION_FRAME_DURATION

\* C14 (as stated): in every state an entity is in the spatial index exactly
\* when it is in some component table, and an entity in a realtime component
\* table is in both: no teardown leaves an entity in the spatial index
\* without components, or in a table after it left the spatial index
TeardownAllOrNothing ==
    \A e \in Entities :
        LET in_components == \E k \in DOMAIN world.components : Contains(world.components[k], e)
            in_realtime == \E k \in DOMAIN world.realtime_components :
                               Contains(world.realtime_components[k], e)
            in_spatial == e \in DOMAIN world.spatial_table
        IN /\ in_spatial => in_components
           /\ (in_components \/ in_realtime) => in_spatial

\* C15: World::cleanup applied to a world without zero-hit-point entities
\* leaves it unchanged and reports no PlayerDied; and applied a second time
\* to its own result it changes nothing and reports no PlayerDied
CleanupIdempotent ==
    LET once == cleanup(world)
        twice == cleanup(once.world)
    IN /\ twice.world = once.world
       /\ twice.player_died = None
       /\ (\A e \in DOMAIN world.components.hit_points :
               world.components.hit_points[e].current # 0)
          => (once.world = world /\ once.player_died = None)

\* the player's attack has left the NPC at zero hit points, not yet swept:
\* cleanup changes this world
WitnessC15 ==
    /\ call.op = "handle_input"
    /\ Contains(world.components.hit_points, NpcEntity)
    /\ world.components.hit_points[NpcEntity].current = 0
    /\ cleanup(world).world # world
    /\ NpcEntity \notin DOMAIN cleanup(world).world.spatial_table

\* the game as the next call finds it: the observations of the last call are
\* not part of it
Returned(g) == [g EXCEPT !.obs = NoObs]

\* C16: with the player next to a closed door and the game accepting input,
\* handle_input(Walk towards the door) returns Ok(None), leaves the door not
\* solid, not opaque and with tile DoorOpen, and leaves the player where it
\* was; and after a handle_tick that drains the turn, the same input puts the
\* player on the door's coordinate unless a character stands there
DoorScenario ==
    \A direction \in CardinalDirections :
        LET from == entity_coord(world, player)
            target == CoordAdd(from, DirectionCoord(direction))
            door == LayerAt(world.spatial_table, target, "Feature")
        IN (/\ ~IsSome(generate_frame_countdown)
            /\ ~is_gameplay_blocked(world)
            /\ ~IsSome(turn_during_animation)
            /\ from # NoCoord
            /\ door # NoEntity
            /\ Contains(world.components.solid, door)
            /\ Contains(world.components.door_state, door)
            /\ world.components.door_state[door] = "Closed")
           => LET first == InputResult(direction)
              IN /\ first.ret = "None"
                 /\ ~Contains(first.g.world.components.solid, door)
                 /\ ~Contains(first.g.world.components.opacity, door)
                 /\ first.g.world.components.tile[door].kind = "DoorOpen"
                 /\ entity_coord(first.g.world, player) = from
                 /\ \A d \in TickDurations, acts \in [first.g.agents -> NpcActions] :
                       LET drained == handle_tick(Returned(first.g), d, config, acts, FALSE)
                           second == handle_input(Returned(drained.g), direction, config)
                       IN (/\ drained.ret = "None"
                           /\ drained.g.turn_during_animation = None
                           /\ LayerAt(drained.g.world.spatial_table, target, "Character")
                                  = NoEntity)
                          => /\ second.ret = "None"
                             /\ entity_coord(second.g.world, player) = target

\* the second input has put the player on the open door
WitnessC16 ==
    /\ call.op = "handle_input"
    /\ call.ret = "None"
    /\ Contains(world.components.tile, DoorEntity)
    /\ world.components.tile[DoorEntity].kind = "DoorOpen"
    /\ entity_coord(world, player) = entity_coord(world, DoorEntity)

\* n countdown steps in a row, nothing else happening in between
RECURSIVE DoorCountdownSteps(_, _)
DoorCountdownSteps(w, n) ==
    IF n = 0 THEN w ELSE DoorCountdownSteps(process_door_close_countdown(w), n - 1)

\* C17 (as stated): a door whose countdown has its initial value and on which
\* no character stands is open after fewer than that number of consecutive
\* countdown steps and closed (solid, opaque, tile DoorClosed, countdown gone)
\* after exactly that number; and a countdown step with a character on the
\* door leaves it open with the countdown at its initial value
DoorClosesAfterCountdown ==
    \A door \in DOMAIN world.components.door_close_countdown :
        LET on_door == LayerAt(world.spatial_table, entity_coord(world, door), "Character")
            stepped == process_door_close_countdown(world)
        IN door \in DOMAIN world.spatial_table =>
              /\ (on_door = NoEntity
                  /\ world.components.door_close_countdown[door] = DoorCloseCountdown)
                 => /\ \A n \in 0 .. DoorCloseCountdown - 1 :
                          ~Contains(DoorCountdownSteps(world, n).components.solid, door)
                    /\ LET closed == DoorCountdownSteps(world, DoorCloseCountdown)
                       IN /\ Contains(closed.components.solid, door)
                          /\ Contains(closed.components.opacity, door)
                          /\ closed.components.tile[door].kind = "DoorClosed"
                          /\ ~Contains(closed.components.door_close_countdown, door)
              /\ on_door # NoEntity
                 => /\ stepped.components.door_close_countdown[door] = DoorCloseCountdown
                    /\ ~Contains(stepped.components.solid, door)

\* C18 (as stated): in the cycle of handle_input and handle_tick alone, with
\* turns elapsing again and again, a door that is open with no character on
\* it is eventually closed (or a character has stepped on it)
OpenDoorCloses ==
    []<>(call.op = "handle_tick" /\ call.npc_turns = 1) =>
        ((/\ Contains(world.components.door_close_countdown, DoorEntity)
          /\ LayerAt(world.spatial_table, entity_coord(world, DoorEntity), "Character")
                 = NoEntity)
         ~> (\/ ~Contains(world.components.door_close_countdown, DoorEntity)
             \/ LayerAt(world.spatial_table, entity_coord(world, DoorEntity), "Character")
                    # NoEntity))

\* C19 (as stated): when a projectile that passes through characters moves
\* into a cell held by a character with armour A, having penetration P: if
\* P > A it flies on into that cell with penetration P - A and the character
\* has lost the projectile's damage once; otherwise the character is not
\* damaged and the projectile stops there, no longer scheduled to move
PenetrationRule ==
    \A e \in DOMAIN world.realtime_components.movement :
        LET direction == world.realtime_components.movement[e]
            from == entity_coord(world, e)
            next == CoordAdd(from, DirectionCoord(direction))
            target == LayerAt(world.spatial_table, next, "Character")
        IN (/\ from # NoCoord
            /\ Contains(world.components.projectile_damage, e)
            /\ Contains(world.components.collides_with, e)
            /\ ~world.components.collides_with[e].character
            /\ next \in Coords
            /\ target # NoEntity
            /\ Contains(world.components.armour, target)
            /\ Contains(world.components.hit_points, target))
           => LET P == world.components.projectile_damage[e].pen
                  A == world.components.armour[target]
                  dmg == world.components.projectile_damage[e].hit_points
                  hp == world.components.hit_points[target].current
                  after == projectile_move([world |-> world, events |-> events, rolls |-> 0],
                                           e, direction, FALSE).world
              IN IF P > A
                 THEN /\ Contains(after.realtime_components.movement, e)
                      /\ entity_coord(after, e) = next
                      /\ Contains(after.components.projectile_damage, e)
                      /\ after.components.projectile_damage[e].pen = P - A
                      /\ after.components.hit_points[target].current
                             = (IF dmg >= hp THEN 0 ELSE hp - dmg)
                 ELSE /\ after.components.hit_points[target].current = hp
                      /\ ~Contains(after.realtime_components.movement, e)

\* C20 (as stated): whenever a projectile's move ends in a terminating
\* collision (it leaves the map, or the cell ahead holds a solid feature or a
\* character it collides with), the projectile is no longer scheduled to
\* move; a projectile whose collision behaviour is Explode has raised its
\* explosion where it stood; and a projectile whose behaviour is Explode or
\* Remove is gone from the spatial index, every component table, every
\* realtime table and the allocator, and no longer blocks gameplay
StopContract ==
    \A e \in DOMAIN world.realtime_components.movement, hull_roll \in BOOLEAN :
        LET direction == world.realtime_components.movement[e]
            from == entity_coord(world, e)
            next == CoordAdd(from, DirectionCoord(direction))
            feature == LayerAt(world.spatial_table, next, "Feature")
            character == LayerAt(world.spatial_table, next, "Character")
            in_cell == IF feature # NoEntity THEN feature ELSE character
            collides == /\ Contains(world.components.collides_with, e)
                        /\ in_cell # NoEntity
                        /\ \/ /\ world.components.collides_with[e].solid
                              /\ Contains(world.components.solid, in_cell)
                           \/ /\ world.components.collides_with[e].character
                              /\ Contains(world.components.character, in_cell)
            behaviour == IF Contains(world.components.on_collision, e)
                         THEN world.components.on_collision[e] ELSE "None"
            stopped == projectile_move([world |-> world, events |-> events, rolls |-> 0],
                                       e, direction, hull_roll)
            after == stopped.world
        IN (from # NoCoord /\ (next \notin Coords \/ collides))
           => /\ ~Contains(after.realtime_components.movement, e)
              /\ behaviour = "Explode"
                 => /\ Len(stopped.events) = Len(events) + 1
                    /\ stopped.events[Len(stopped.events)] = [type |-> "Explosion", arg |-> from]
              /\ behaviour \in {"Explode", "Remove"}
                 => /\ e \notin DOMAIN after.spatial_table
                    /\ \A k \in DOMAIN after.components : ~Contains(after.components[k], e)
                    /\ \A k \in DOMAIN after.realtime_components :
                          ~Contains(after.realtime_components[k], e)
                    /\ e \notin after.entity_allocator

\* C21: under a caller that keeps calling handle_tick, a state in which
\* gameplay is blocked is followed by one in which it is not (or the program
\* has panicked, or the frame accumulator has reached the bound of the model)
BlockingDrains ==
    is_gameplay_blocked(world) ~>
        \/ ~is_gameplay_blocked(world)
        \/ panicked
        \/ since_last_frame > MaxResidual - ANIMATION_FRAME_DURATION

\* handle_tick has just unblocked gameplay: the projectile that crossed the
\* level has left the map and is gone, nobody was hit and the wall stands
WitnessC21 ==
    /\ call.op = "handle_tick"
    /\ ~is_gameplay_blocked(world)
    /\ world.level = 0
    /\ BulletEntity \notin world.entity_allocator
    /\ world.realtime_components.movement = EmptyTable
    /\ Contains(world.components.hit_points, NpcEntity)
    /\ world.components.hit_points[NpcEntity].current = 1
    /\ Contains(world.components.solid, WallEntity)
    /\ world.components.hit_points[PlayerEntity].current = 2
    /\ animation_rng = 0

\* C22: a handle_tick that regenerates the level leaves a world whose player
\* carries exactly the component data the player had just before, whose level
\* index is the old one plus one, and a cached player info and a visibility
\* grid that are those of the player in the new world
RegenerationPreservesPlayer ==
    \A d \in TickDurations, acts \in TickActChoices, hull_roll \in RollChoices :
        LET r == handle_tick(Self, d, config, acts, hull_roll)
        IN r.ret = "LevelChange" =>
              /\ clone_entity_data(r.g.world.components, r.g.player)
                    = clone_entity_data(world.components, player)
              /\ r.g.world.level = world.level + 1
              /\ Some(r.g.last_player_info) = character_info(r.g.world, r.g.player)
              /\ r.g.visibility_grid =
                     visibility_update(r.g.world, entity_coord(r.g.world, r.g.player),
                                       config.omniscient)

IsPrefix(s, t) == Len(s) <= Len(t) /\ SubSeq(t, 1, Len(s)) = s

\* C23: events() returns the whole outbox, oldest first, and leaves it empty,
\* so that a second events() right after it returns nothing; every other
\* operation only appends to the outbox
DrainsOutbox ==
    [][LET first == Game_events(Self)
       IN /\ call'.op = "events" =>
                /\ first.ret = events
                /\ events' = first.g.events
                /\ events' = <<>>
                /\ Game_events(first.g).ret = <<>>
          /\ call'.op # "events" => IsPrefix(events, events')]_vars

\* events() has drained an outbox that held the music cue of a regenerated
\* level
WitnessC23 ==
    /\ call.op = "events"
    /\ events = <<>>
    /\ world.level = 1

\* C24: with gameplay not blocked, handle_npc_turn steps the door countdowns
\* and runs exactly one NPC turn, whatever the turn marker, the post-turn
\* countdowns and the generation countdown are, and it leaves the marker and
\* both post-turn countdowns as they were
NpcTurnOnDemand ==
    ~is_gameplay_blocked(world) =>
        \A acts \in [agents -> NpcActions] :
            LET g == handle_npc_turn(Self, acts)
                doors == [Self EXCEPT !.world = process_door_close_countdown(@)]
            IN ~g.panic =>
                  /\ Len(g.obs.npc_turns) = 1
                  /\ g.obs.npc_turns[1] =
                        [blocked |-> FALSE,
                         turn |-> turn_during_animation,
                         after_player_turn_countdown |-> after_player_turn_countdown,
                         before_npc_turn_cooldown |-> before_npc_turn_cooldown]
                  /\ g = npc_turn(doors, acts)
                  /\ g.turn_during_animation = turn_during_animation
                  /\ g.after_player_turn_countdown = after_player_turn_countdown
                  /\ g.before_npc_turn_cooldown = before_npc_turn_cooldown

\* handle_npc_turn has run an NPC turn although the marker was set and the
\* level was about to be regenerated, and the marker is still set
WitnessC24 ==
    /\ call.op = "handle_npc_turn"
    /\ call.npc_turns = 1
    /\ turn_during_animation = Some("Player")
    /\ IsSome(generate_frame_countdown)
    /\ ~panicked

\* C25: when the move an agent decides on is rejected, the NPC turn does not
\* panic and leaves the game exactly as the turn in which that agent waits
RejectedMoveIsWait ==
    \A e \in agents, direction \in CardinalDirections :
        LET walk == character_walk_in_direction(world, e, direction)
            waits == [a \in agents |-> "Wait"]
            g == npc_turn(Self, [waits EXCEPT ![e] = direction])
        IN entity_exists(world, e) /\ walk.result = "WalkIntoSolidCell" =>
              /\ ~g.panic
              /\ g = npc_turn(Self, waits)

\* what the six upgrades act on
UpgradeSlots(w, entity) ==
    [ranged_weapons |-> w.components.player[entity].ranged_weapons,
     hit_points |-> w.components.hit_points[entity],
     reduce_hull_pen |-> w.components.player[entity].reduce_hull_pen,
     double_damage |-> w.components.player[entity].double_damage,
     half_vacuum_pull |-> w.components.player[entity].half_vacuum_pull,
     oxygen |-> w.components.oxygen[entity]]
SlotOf(upgrade) ==
    CASE upgrade.typ = "Toughness" ->
             IF upgrade.level = "Level1" THEN "ranged_weapons" ELSE "hit_points"
      [] upgrade.typ = "Accuracy" ->
             IF upgrade.level = "Level1" THEN "reduce_hull_pen" ELSE "double_damage"
      [] upgrade.typ = "Endurance" ->
             IF upgrade.level = "Level1" THEN "half_vacuum_pull" ELSE "oxygen"
\* the world but for the player's credit, upgrade table and upgrade slots
BesidesUpgrades(w, entity) ==
    [w EXCEPT !.components.player = Remove(@, entity),
              !.components.hit_points = Remove(@, entity),
              !.components.oxygen = Remove(@, entity)]

\* C26: apply_upgrade with a credit below the cost returns
\* CannotAffordUpgrade and changes nothing; otherwise it takes exactly the
\* cost off the credit, which stays at or above zero, records the level
\* under the upgrade's type and applies the effect of that one upgrade
UpgradeContract ==
    \A upgrade \in Upgrades :
        LET before == world.components.player[player]
            r == apply_upgrade(world, player, upgrade)
            after == r.world.components.player[player]
            old == UpgradeSlots(world, player)
            new == UpgradeSlots(r.world, player)
            slot == SlotOf(upgrade)
        IN IF before.credit < cost(upgrade.level)
           THEN r.result = "CannotAffordUpgrade" /\ r.world = world
           ELSE /\ r.result = "Ok"
                /\ after.credit = before.credit - cost(upgrade.level)
                /\ after.credit >= 0
                /\ after.upgrade_table
                       = [before.upgrade_table EXCEPT ![upgrade.typ] = Some(upgrade.level)]
                /\ \A s \in (DOMAIN old) \ {slot} : new[s] = old[s]
                /\ new[slot] =
                       CASE slot = "ranged_weapons" -> Append(old[slot], None)
                         [] slot \in {"hit_points", "oxygen"} ->
                                [max |-> 2 * old[slot].max, current |-> 2 * old[slot].current]
                         [] OTHER -> TRUE
                /\ after.melee_pen = before.melee_pen
                /\ after.melee_dmg = before.melee_dmg
                /\ after.knock_back = before.knock_back
                /\ BesidesUpgrades(r.world, player) = BesidesUpgrades(world, player)

\* apply_upgrade has refused an upgrade the player could not pay after it
\* sold another one
WitnessC26 ==
    /\ call.op = "apply_upgrade"
    /\ call.ret = "CannotAffordUpgrade"
    /\ world.components.player[player].credit = 1
    /\ world.components.player[player].upgrade_table["Toughness"] = Some("Level2")
    /\ world.components.hit_points[player].max = 4

\* C27: a character that walks into a cell held by another character keeps
\* its place in the spatial table; the player's walk hits the occupant as
\* player_melee_attack does, an NPC's walk into the player takes the NPC's
\* damage off the player's hit points, and an NPC's walk into another NPC
\* leaves the occupant, and the rest of the world, as they were
OccupiedCellConflict ==
    \A walker \in DOMAIN world.components.character, direction \in CardinalDirections :
        LET from == entity_coord(world, walker)
            target == CoordAdd(from, DirectionCoord(direction))
            occupant == LayerAt(world.spatial_table, target, "Character")
            r == WalkMove(world, walker, direction)
            is_player(e) == Contains(world.components.player, e)
            hp(w, e) == w.components.hit_points[e].current
        IN /\ from # NoCoord
           /\ target \in Coords
           /\ ~is_solid_feature_at_coord(world, target)
           /\ occupant # NoEntity
           => /\ r.result = "Ok"
              /\ r.world.spatial_table[walker] = world.spatial_table[walker]
              /\ is_player(walker) =>
                    /\ r.world = player_melee_attack(world, walker, occupant, direction).world
                    /\ hp(r.world, occupant) =
                          IF world.components.player[walker].melee_pen
                                >= world.components.armour[occupant]
                          THEN Max(0, hp(world, occupant)
                                         - world.components.player[walker].melee_dmg)
                          ELSE hp(world, occupant)
              /\ ~is_player(walker) /\ is_player(occupant) =>
                    /\ hp(r.world, occupant) =
                          Max(0, hp(world, occupant) - world.components.damage[walker])
                    /\ r.world.spatial_table = world.spatial_table
              /\ ~is_player(walker) /\ ~is_player(occupant) => r.world = world

\* an NPC turn in which the NPC next to the player walked into the player:
\* the player has lost a hit point, and both stand where they stood, with
\* the second NPC still in the level
WitnessC27 ==
    /\ call.op = "handle_npc_turn"
    /\ call.npc_turns = 1
    /\ NpcEntities \subseteq DOMAIN world.components.npc
    /\ entity_coord(world, NpcEntity) = <<0, 1>>
    /\ entity_coord(world, PlayerEntity) = <<0, 0>>
    /\ world.components.hit_points[PlayerEntity].current = 1

ExistingNpcs(w) == {e \in DOMAIN w.components.npc : entity_exists(w, e)}

CachedPlayerInfo ==
    [][~panicked' =>
          LET info == character_info(world', player')
          IN /\ IsSome(info) => last_player_info' = Unwrap(info)
             /\ ~IsSome(info) /\ IsSome(dead_player) =>
                   last_player_info' = last_player_info
             /\ ~IsSome(info) /\ ~IsSome(dead_player) /\ IsSome(dead_player') =>
                   /\ last_player_info'.hit_points = Unwrap(dead_player').hit_points
                   /\ last_player_info'.oxygen = Unwrap(dead_player').oxygen
                   /\ last_player_info'.coord = entity_coord(world, player)]_vars

\* a call made after the player's death: the cache still shows the player
\* with no hit point left, where the player died
WitnessC30 ==
    /\ call.op = "handle_input"
    /\ call.ret = "GameOver"
    /\ IsSome(dead_player)
    /\ ~IsSome(character_info(world, player))
    /\ last_player_info.hit_points.current = 0
    /\ last_player_info.coord = <<1, 0>>
    /\ world.level = 0

\* C31: when handle_input, handle_tick or handle_npc_turn has returned and
\* the player has a coordinate, the visibility grid is the one computed from
\* that coordinate
GridFollowsObserver ==
    /\ call.op \in {"handle_input", "handle_tick", "handle_npc_turn"}
    /\ ~panicked
    /\ entity_coord(world, player) # NoCoord
    => visibility_grid.observer = entity_coord(world, player)

\* handle_input has moved the player one cell to the east and the grid is
\* the one seen from there
WitnessC31 ==
    /\ call.op = "handle_input"
    /\ call.ret = "None"
    /\ entity_coord(world, player) = <<1, 0>>
    /\ visibility_grid.observer = <<1, 0>>
    /\ world.level = 0

TurnsAlternate ==
    [][~panicked' =>
          /\ call'.op = "handle_input" /\ game_vars' # game_vars =>
                /\ turn_during_animation = None
                /\ turn_during_animation' = Some("Player")
                /\ call'.npc_turns = 0
          /\ call'.op = "handle_tick" /\ call'.npc_turns >= 1 =>
                /\ call'.npc_turns = 1
                /\ turn_during_animation = Some("Player")
                /\ turn_during_animation' = None
          /\ turn_during_animation' # turn_during_animation =>
                \/ call'.op = "handle_input"
                \/ call'.op = "handle_tick" /\ call'.npc_turns = 1]_vars

\* the second NPC turn of a game: the player walked, the NPC hit, the player
\* walked onto the stairs and handle_tick has run the NPC turn that arms the
\* regeneration
WitnessC34 ==
    /\ call.op = "handle_tick"
    /\ call.npc_turns = 1
    /\ turn_during_animation = None
    /\ rng = 2
    /\ generate_frame_countdown = Some(GenerateCountdownMs)
    /\ world.components.hit_points[PlayerEntity].current = 1

\* C35: in every state in which handle_input would take the player's turn,
\* the player has a coordinate in the spatial table, and no Walk input
\* makes handle_input panic
WalkFindsPlayer ==
    ~panicked =>
        /\ (/\ ~IsSome(generate_frame_countdown)
            /\ ~is_gameplay_blocked(world)
            /\ ~IsSome(turn_during_animation))
              => entity_coord(world, player) # NoCoord
        /\ \A direction \in CardinalDirections :
               handle_input(Self, direction, config).ret # "Panic"

DoorIsClosed(w, door) ==
    /\ Contains(w.components.solid, door)
    /\ Contains(w.components.opacity, door)
    /\ w.components.opacity[door] = ClosedDoorOpacity
    /\ Contains(w.components.tile, door)
    /\ w.components.tile[door].kind = "DoorClosed"
    /\ ~Contains(w.components.door_close_countdown, door)
DoorIsOpen(w, door) ==
    /\ ~Contains(w.components.solid, door)
    /\ ~Contains(w.components.opacity, door)
    /\ Contains(w.components.tile, door)
    /\ w.components.tile[door].kind = "DoorOpen"
    /\ Contains(w.components.door_close_countdown, door)
    /\ w.components.door_close_countdown[door] \in 0 .. DoorCloseCountdown

\* C37: every door is either closed (solid, opacity 255, tile DoorClosed, no
\* close countdown) or open (not solid, no opacity, tile DoorOpen, close
\* countdown in 0..4), never a mixture of the two
DoorConsistency ==
    ~panicked =>
        \A door \in DOMAIN world.components.door_state :
            DoorIsClosed(world, door) # DoorIsOpen(world, door)

\* a door that the player opened and that four countdown steps have taken
\* to 0, still open
WitnessC37 ==
    /\ call.op = "handle_npc_turn"
    /\ ~panicked
    /\ Contains(world.components.door_state, DoorEntity)
    /\ DoorIsOpen(world, DoorEntity)
    /\ world.components.door_close_countdown[DoorEntity] = 0

\* the amounts of damage tried on every character
MaxDamage == 3

\* C38: damage_character never underflows: damage of at least the current
\* hit points leaves exactly 0 and marks the character for removal, less
\* damage takes exactly that much and marks nothing; so every character with
\* 0 hit points is marked, and the next cleanup sweeps it
DamageSaturates ==
    ~panicked =>
        \A character \in DOMAIN world.components.hit_points :
            LET current == world.components.hit_points[character].current
                marked == Contains(world.components.to_remove, character)
            IN /\ current = 0 => marked
               /\ current = 0 => character \notin cleanup(world).world.entity_allocator
               /\ \A hit_points_to_lose \in 0 .. MaxDamage :
                     LET after == damage_character(world, character, hit_points_to_lose)
                         left == after.components.hit_points[character]
                     IN /\ left.current \in 0 .. current
                        /\ left.max = world.components.hit_points[character].max
                        /\ hit_points_to_lose >= current
                             => /\ left.current = 0
                                /\ Contains(after.components.to_remove, character)
                        /\ hit_points_to_lose < current
                             => /\ left.current = current - hit_points_to_lose
                                /\ Contains(after.components.to_remove, character) = marked

\* a character that damage has taken to 0 hit points, marked and not yet swept
WitnessC38 ==
    /\ ~panicked
    /\ \E character \in DOMAIN world.components.hit_points :
          /\ world.components.hit_points[character].current = 0
          /\ Contains(world.components.to_remove, character)
          /\ character \in world.entity_allocator

\* the world with the character's half-speed component taken away
FullSpeed(w, character) ==
    [w EXCEPT !.components.move_half_speed = Remove(@, character)]

\* the walk attempt r from w was skipped: success, and nothing but the flag
\* has changed
SkippedWalk(w, character, r) ==
    /\ r.result = "Ok"
    /\ ~r.world.components.move_half_speed[character].skip_next_move
    /\ FullSpeed(r.world, character) = FullSpeed(w, character)

\* the walk attempt r from w was acted on: it did what the walk of a
\* full-speed character does, and the next attempt is due to be skipped
ActedOnWalk(w, character, direction, r) ==
    /\ r.world.components.move_half_speed[character].skip_next_move
    /\ r.result =
           character_walk_in_direction(FullSpeed(w, character), character, direction).result
    /\ FullSpeed(r.world, character) =
           character_walk_in_direction(FullSpeed(w, character), character, direction).world

\* C39: a half-speed character's walk attempts are alternately acted on and
\* skipped, starting with an acted-on attempt when skip_next_move is false;
\* a skipped attempt succeeds without moving, attacking or opening anything
HalfSpeedAlternates ==
    ~panicked =>
        \A character \in DOMAIN world.components.move_half_speed,
           d1 \in CardinalDirections, d2 \in CardinalDirections :
            LET first == character_walk_in_direction(world, character, d1)
                second == character_walk_in_direction(first.world, character, d2)
            IN IF world.components.move_half_speed[character].skip_next_move
               THEN /\ SkippedWalk(world, character, first)
                    /\ ActedOnWalk(first.world, character, d2, second)
               ELSE /\ ActedOnWalk(world, character, d1, first)
                    /\ SkippedWalk(first.world, character, second)

\* a half-speed NPC that has walked off its first cell and is due to skip
\* its next attempt
WitnessC39 ==
    /\ ~panicked
    /\ call.op \in {"handle_tick", "handle_npc_turn"}
    /\ Contains(world.components.move_half_speed, NpcEntity)
    /\ world.components.move_half_speed[NpcEntity].skip_next_move
    /\ entity_coord(world, NpcEntity) \notin {NoCoord, <<1, 1>>}

\* C40: a deck is a bounded stack: it never holds more than max_size items;
\* a push on a full deck returns DeckIsFull and leaves the deck as it was; a
\* push followed by a pop returns the pushed item and restores the deck;
\* peek and iter present the most recently pushed item first
DeckIsBoundedStack ==
    /\ Deck_len(TechDeck) <= Deck_max_size(TechDeck)
    /\ Deck_len(TechDeck) = Len(Deck_iter(TechDeck))
    /\ Deck_peek(TechDeck) =
           (IF Deck_len(TechDeck) = 0 THEN None ELSE Some(Head(Deck_iter(TechDeck))))
    /\ \A item \in DeckItems :
          LET pushed == Deck_push(TechDeck, item)
          IN IF Deck_len(TechDeck) >= Deck_max_size(TechDeck)
             THEN /\ pushed.result = "DeckIsFull"
                  /\ pushed.deck = TechDeck
             ELSE /\ pushed.result = "Ok"
                  /\ Deck_len(pushed.deck) = Deck_len(TechDeck) + 1
                  /\ Deck_pop(pushed.deck) = [deck |-> TechDeck, ret |-> Some(item)]
                  /\ Deck_peek(pushed.deck) = Some(item)
                  /\ Deck_iter(pushed.deck) = <<item>> \o Deck_iter(TechDeck)

\* a push that the full deck has refused
WitnessC40 ==
    /\ call.op = "push"
    /\ call.ret = "DeckIsFull"
    /\ Deck_len(TechDeck) = MaxDeckSize

====
